---- MODULE Spec2Model ----
(***************************************************************************)
(* A model of the BigQuery client library: the fluent QueryBuilder, and    *)
(* the BigQueryClient operations that drive it and talk to the warehouse.  *)
(*                                                                         *)
(* SQL text is modelled as a sequence of tokens.  A token is a literal     *)
(* piece of text, or a `?` placeholder.  A placeholder token remembers the *)
(* value that the call which wrote it pushed for it; that memory is        *)
(* history only: Text erases it, and Text is what the program returns.     *)
(***************************************************************************)
EXTENDS Integers, Sequences, FiniteSets, TLC

\* ------------------------------------------------------------------ bounds
MaxCalls == 2

\* ------------------------------------------------------- tokens and values
\* A string is a sequence of atoms, pieces of text the model does not look
\* into; concatenation is \o and the empty string is <<>>.
Lit(s) == [k |-> "lit", v |-> s]
L(atom) == Lit(<<atom>>)
Num(n) == [k |-> "num", n |-> n]
Ph(x)  == [k |-> "ph", for |-> x]

Erase(tok) == IF tok.k = "ph" THEN L("?") ELSE tok
Text(toks) == [i \in DOMAIN toks |-> Erase(toks[i])]

\* a positional value, and the named value whereArray pushes
Scalar(x)    == [val |-> x]
Named(c, xs) == [name |-> c, value |-> xs]

RECURSIVE Flatten(_)
Flatten(frags) ==
    IF frags = <<>> THEN <<>> ELSE Head(frags) \o Flatten(Tail(frags))

\* Array.prototype.join: the fragments with the separator between them
RECURSIVE JoinSep(_, _)
JoinSep(frags, sep) ==
    IF frags = <<>> THEN <<>>
    ELSE IF Len(frags) = 1 THEN Head(frags)
    ELSE Head(frags) \o <<L(sep)>> \o JoinSep(Tail(frags), sep)

SeqMap(Op(_), s) == [i \in DOMAIN s |-> Op(s[i])]

\* an object literal {k1: v1, k2: v2}: its entries in insertion order
Keys(m)   == [i \in DOMAIN m |-> m[i][1]]
Values(m) == [i \in DOMAIN m |-> m[i][2]]

NoError == "none"
Ok(b)         == [b |-> b, err |-> NoError]
Throw(b, msg) == [b |-> b, err |-> msg]

\* ----------------------------------------------------------- QueryBuilder
NewQueryBuilder(table) ==
    [ table                 |-> table,
      columns               |-> <<>>,
      values                |-> <<>>,
      joins                 |-> <<>>,
      conditions            |-> <<>>,
      setClauses            |-> <<>>,
      groupByColumns        |-> <<>>,
      orderByColumns        |-> <<>>,
      limitValue            |-> {},
      offsetValue           |-> {},
      aggregateFunctions    |-> <<>>,
      queryType             |-> "SELECT",
      tableSamplePercentage |-> {},
      isDistinct            |-> FALSE ]

ColFrag(c) == <<Lit(c)>>
\* a bug: the value written into the text, `${key} = ${value}`
EqPh_interpolated(key, v) == <<Lit(key), L("="), L(v)>>
EqPh(key, v) == <<Lit(key), L("="), Ph(Scalar(v))>>
EqPhOf(e) == EqPh(e[1], e[2])
ScalarOf(e) == Scalar(e[2])

QB_select(b, columns) ==
    Ok([b EXCEPT !.queryType = "SELECT", !.columns = SeqMap(ColFrag, columns)])

QB_selectDistinct(b, columns) ==
    QB_select([b EXCEPT !.isDistinct = TRUE], columns)

\* String.toUpperCase / toLowerCase, atom by atom, over the function names
\* the model uses
UpperAtom(x) ==
    CASE x \in {"sum", "Sum", "SUM"} -> "SUM"
      [] x \in {"count", "COUNT"} -> "COUNT"
      [] x \in {"upper", "UPPER"} -> "UPPER"
      [] OTHER -> x
LowerAtom(x) ==
    CASE x \in {"sum", "Sum", "SUM"} -> "sum"
      [] x \in {"count", "COUNT"} -> "count"
      [] x \in {"upper", "UPPER"} -> "upper"
      [] OTHER -> x
toUpperCase(str) == [i \in DOMAIN str |-> UpperAtom(str[i])]
toLowerCase(str) == [i \in DOMAIN str |-> LowerAtom(str[i])]

AggFrag(a) == <<Lit(toUpperCase(a.func)), L("("), Lit(a.column), L(")")>>

QB_selectAggregate(b, aggregates) ==
    Ok([b EXCEPT !.queryType = "SELECT",
                 !.aggregateFunctions = SeqMap(AggFrag, aggregates)])

\* conditions: the WHEN texts; thens: the THEN values; elseValue, alias: a
\* set holding the argument when it is given
WhenFrag(w, t) == <<L("WHEN"), Lit(w), L("THEN"), Ph(Scalar(t))>>
QB_case(b, conditions, thens, elseValue, alias) ==
    LET whens == Flatten([i \in DOMAIN conditions |->
                              WhenFrag(conditions[i], thens[i])])
        els   == IF elseValue = {} THEN <<>>
                 ELSE <<L("ELSE"), Ph(Scalar(CHOOSE e \in elseValue : TRUE))>>
        as    == IF alias = {} THEN <<>>
                 ELSE <<L("AS"), Lit(CHOOSE a \in alias : TRUE)>>
        stmt  == <<L("CASE")>> \o whens \o els \o <<L("END")>> \o as
        pushed == SeqMap(Scalar, thens)
                  \o (IF elseValue = {} THEN <<>>
                      ELSE <<Scalar(CHOOSE e \in elseValue : TRUE)>>)
    IN Ok([b EXCEPT !.values = @ \o pushed, !.columns = Append(@, stmt)])

\* a bug: the query type set before the rows are checked
QB_insert_assignFirst(b, rows) ==
    IF Len(rows) = 0
    THEN Throw([b EXCEPT !.queryType = "INSERT"],
               "Insert requires at least one row.")
    ELSE Ok([b EXCEPT !.queryType = "INSERT",
                      !.columns = SeqMap(ColFrag, Keys(rows[1])),
                      !.values = Flatten([i \in DOMAIN rows |->
                                             SeqMap(ScalarOf, rows[i])])])
QB_insert(b, rows) ==
    IF Len(rows) = 0 THEN Throw(b, "Insert requires at least one row.")
    ELSE Ok([b EXCEPT !.queryType = "INSERT",
                      !.columns = SeqMap(ColFrag, Keys(rows[1])),
                      !.values = Flatten([i \in DOMAIN rows |->
                                             SeqMap(ScalarOf, rows[i])])])

QB_update(b, set) ==
    IF Len(set) = 0
    THEN Throw(b, "Update requires at least one column to set.")
    ELSE Ok([b EXCEPT !.queryType = "UPDATE",
                      !.setClauses = SeqMap(EqPhOf, set),
                      !.values = @ \o SeqMap(ScalarOf, set)])

QB_delete(b) == Ok([b EXCEPT !.queryType = "DELETE"])

OnFrag(e) == <<Lit(e[1]), L("="), Lit(e[2])>>
QB_join(b, table, on, type) ==
    IF table = <<>> \/ Len(on) = 0
    THEN Throw(b, "Join requires a valid table and condition.")
    ELSE Ok([b EXCEPT !.joins = Append(@,
                 <<Lit(type), L("JOIN"), Lit(table), L("ON")>>
                 \o JoinSep(SeqMap(OnFrag, on), "AND"))])

QB_groupBy(b, columns) ==
    IF Len(columns) = 0 THEN Throw(b, "GroupBy requires at least one column.")
    ELSE Ok([b EXCEPT !.groupByColumns = SeqMap(ColFrag, columns)])

\* an order entry is <<column, direction>>, direction <<>> when not given
OrderFrag(o) == <<Lit(o[1]), Lit(IF o[2] = <<>> THEN <<"ASC">> ELSE o[2])>>
QB_orderBy(b, order) ==
    IF Len(order) = 0 THEN Throw(b, "OrderBy requires at least one column.")
    ELSE Ok([b EXCEPT !.orderByColumns = SeqMap(OrderFrag, order)])

QB_limit(b, n) ==
    IF n < 0 THEN Throw(b, "Limit must be a positive number.")
    ELSE Ok([b EXCEPT !.limitValue = {n}])

QB_offset(b, n) ==
    IF n < 0 THEN Throw(b, "Offset must be a positive number.")
    ELSE Ok([b EXCEPT !.offsetValue = {n}])

QB_having(b, conditions) ==
    IF Len(conditions) = 0 THEN Throw(b, "Having conditions cannot be empty.")
    ELSE Ok([b EXCEPT !.conditions = @ \o SeqMap(EqPhOf, conditions),
                      !.values = @ \o SeqMap(ScalarOf, conditions)])

QB_where(b, conditions) ==
    IF Len(conditions) = 0 THEN Ok(b)
    ELSE Ok([b EXCEPT !.conditions = @ \o SeqMap(EqPhOf, conditions),
                      !.values = @ \o SeqMap(ScalarOf, conditions)])

QB_whereArray(b, column, values) ==
    IF Len(values) = 0 THEN Throw(b, "Array values cannot be empty.")
    ELSE Ok([b EXCEPT !.conditions = Append(@,
                 <<Lit(column), L("IN UNNEST(@"), Lit(column), L(")")>>),
                      !.values = Append(@, Named(column, values))])

QB_tableSample(b, percentage) ==
    IF percentage <= 0 \/ percentage > 100
    THEN Throw(b, "Percentage must be between 0 and 100.")
    ELSE Ok([b EXCEPT !.tableSamplePercentage = {percentage}])

\* the helpers that push one condition fragment and its values
PushCond(b, frag, vals) ==
    Ok([b EXCEPT !.conditions = Append(@, frag),
                 !.values = @ \o SeqMap(Scalar, vals)])

\* the helpers that push one column expression; alias is {} or {name}
AsAlias(frag, alias) ==
    IF alias = {} THEN frag
    ELSE frag \o <<L("AS"), Lit(CHOOSE a \in alias : TRUE)>>
PushCol(b, frag) == Ok([b EXCEPT !.columns = Append(@, frag)])

QB_selectSubquery(b, subquery, alias) ==
    PushCol([b EXCEPT !.queryType = "SELECT"],
            <<L("("), Lit(subquery), L(")"), L("AS"), Lit(alias)>>)

QB_whereLike(b, column, pattern) ==
    PushCond(b, <<Lit(column), L("LIKE"), Ph(Scalar(pattern))>>, <<pattern>>)

QB_whereNotLike(b, column, pattern) ==
    PushCond(b, <<Lit(column), L("NOT LIKE"), Ph(Scalar(pattern))>>,
             <<pattern>>)

QB_whereExists(b, subquery) ==
    PushCond(b, <<L("EXISTS ("), Lit(subquery), L(")")>>, <<>>)

QB_whereNotExists(b, subquery) ==
    PushCond(b, <<L("NOT EXISTS ("), Lit(subquery), L(")")>>, <<>>)

QB_whereBetween(b, column, min, max) ==
    PushCond(b, <<Lit(column), L("BETWEEN"), Ph(Scalar(min)), L("AND"),
                  Ph(Scalar(max))>>, <<min, max>>)

QB_union(b, query, all) ==
    PushCol([b EXCEPT !.queryType = "SELECT"],
            <<L(IF all THEN "UNION ALL" ELSE "UNION"), Lit(query)>>)

QB_wherePartition(b, column, value) ==
    PushCond(b, EqPh(column, value), <<value>>)

QB_whereJsonField(b, column, jsonPath, value) ==
    PushCond(b, <<L("JSON_EXTRACT("), Lit(column), L(", $."),
                  Lit(jsonPath), L(") ="), Ph(Scalar(value))>>, <<value>>)

QB_whereNull(b, column) ==
    PushCond(b, <<Lit(column), L("IS NULL")>>, <<>>)

QB_whereNotNull(b, column) ==
    PushCond(b, <<Lit(column), L("IS NOT NULL")>>, <<>>)

QB_whereStructField(b, structColumn, field, value) ==
    PushCond(b, <<Lit(structColumn), L("."), Lit(field), L("="),
                  Ph(Scalar(value))>>, <<value>>)

QB_whereDateBetween(b, column, startDate, endDate) ==
    PushCond(b, <<Lit(column), L("BETWEEN DATE("), Ph(Scalar(startDate)),
                  L(") AND DATE("), Ph(Scalar(endDate)), L(")")>>,
             <<startDate, endDate>>)

QB_whereExtract(b, column, part, value) ==
    PushCond(b, <<L("EXTRACT("), Lit(part), L("FROM"), Lit(column),
                  L(") ="), Ph(Scalar(value))>>, <<value>>)

QB_whereDayOfWeek(b, column, day) ==
    PushCond(b, <<L("EXTRACT(DAYOFWEEK FROM"), Lit(column), L(") ="),
                  Ph(Scalar(day))>>, <<day>>)

QB_whereDateComparison(b, column1, operator, column2) ==
    PushCond(b, <<Lit(column1), Lit(operator), Lit(column2)>>, <<>>)

QB_selectFormattedDate(b, column, format, alias) ==
    LET formatted == <<L("FORMAT_TIMESTAMP('"), Lit(format), L("',"),
                       Lit(column), L(")")>>
        star == \E i \in DOMAIN b.columns : b.columns[i] = ColFrag(<<"*">>)
    IN Ok([b EXCEPT !.columns =
              IF star THEN <<AsAlias(formatted, alias)>>
              ELSE Append(@, AsAlias(formatted, alias))])

QB_whereCurrentDate(b, column) ==
    PushCond(b, <<Lit(column), L("= CURRENT_DATE()")>>, <<>>)

QB_whereTimestampBetween(b, column, startDate, endDate) ==
    PushCond(b, <<Lit(column), L("BETWEEN TIMESTAMP("),
                  Ph(Scalar(startDate)), L(") AND TIMESTAMP("),
                  Ph(Scalar(endDate)), L(")")>>, <<startDate, endDate>>)

QB_whereDateTrunc(b, column, part, alias) ==
    PushCol(b, AsAlias(<<L("DATE_TRUNC("), Lit(column), L(","), Lit(part),
                         L(")")>>, alias))

QB_whereTimestampTrunc(b, column, part, alias) ==
    PushCol(b, AsAlias(<<L("TIMESTAMP_TRUNC("), Lit(column), L(","),
                         Lit(part), L(")")>>, alias))

QB_whereContains(b, column, searchTerm) ==
    PushCond(b, <<L("CONTAINS_SUBSTR("), Lit(column), L(","),
                  Ph(Scalar(searchTerm)), L(")")>>, <<searchTerm>>)

QB_whereArrayContains(b, column, value) ==
    PushCond(b, <<L("ARRAY_CONTAINS("), Ph(Scalar(value)), L(","),
                  Lit(column), L(")")>>, <<value>>)

QB_whereArrayLength(b, column, length, operator) ==
    PushCond(b, <<L("ARRAY_LENGTH("), Lit(column), L(")"), Lit(operator),
                  Ph(Scalar(length))>>, <<length>>)

QB_whereNotEqualNullSafe(b, column, value) ==
    PushCond(b, <<Lit(column), L("IS DISTINCT FROM"), Ph(Scalar(value))>>,
             <<value>>)

QB_selectStringAgg(b, column, separator, alias) ==
    PushCol(b, AsAlias(<<L("STRING_AGG("), Lit(column), L(", '"),
                         Lit(separator), L("')")>>, alias))

QB_selectConditionalSum(b, column, condition, alias) ==
    PushCol(b, AsAlias(<<L("SUM(CASE WHEN"), Lit(condition), L("THEN"),
                         Lit(column), L("ELSE 0 END)")>>, alias))

QB_selectWindowFunction(b, func, partitionBy, orderBy, alias) ==
    PushCol(b, AsAlias(<<Lit(func), L("() OVER (PARTITION BY"),
                         Lit(partitionBy), L("ORDER BY"), Lit(orderBy),
                         L(")")>>, alias))

QB_selectJsonField(b, column, jsonPath, alias) ==
    PushCol(b, AsAlias(<<L("JSON_VALUE("), Lit(column), L(", '$."),
                         Lit(jsonPath), L("')")>>, alias))

\* build(): the statement, its params, the builder as build() leaves it,
\* and the RangeError of Array(n) when n is no array length
Group(b, g) ==
    LET k == Len(b.columns)
    IN  <<L("(")>>
        \o JoinSep([j \in 1..k |-> <<Ph(b.values[(g - 1) * k + j])>>], ",")
        \o <<L(")")>>
OptNum(kw, opt) ==
    IF opt = {} THEN <<>> ELSE <<L(kw), Num(CHOOSE n \in opt : TRUE)>>
OptList(kw, frags, sep) ==
    IF Len(frags) = 0 THEN <<>> ELSE <<L(kw)>> \o JoinSep(frags, sep)

BadArrayLength(b) ==
    /\ b.queryType = "INSERT"
    /\ \/ Len(b.columns) = 0
       \/ Len(b.values) % Len(b.columns) # 0

Verb(b) ==
    CASE b.queryType = "SELECT" ->
           LET selectCols ==
                   IF Len(b.aggregateFunctions) > 0 THEN b.aggregateFunctions
                   ELSE IF Len(b.columns) > 0 THEN b.columns
                   ELSE <<ColFrag(<<"*">>)>>
           IN  <<L("SELECT")>>
               \o (IF b.isDistinct THEN <<L("DISTINCT")>> ELSE <<>>)
               \o JoinSep(selectCols, ",")
               \o <<L("FROM"), Lit(b.table)>>
               \o Flatten(b.joins)
               \o OptNum("TABLESAMPLE SYSTEM", b.tableSamplePercentage)
      [] b.queryType = "INSERT" ->
           <<L("INSERT INTO"), Lit(b.table), L("(")>>
           \o JoinSep(b.columns, ",")
           \o <<L(")"), L("VALUES")>>
           \o JoinSep([g \in 1..(Len(b.values) \div Len(b.columns)) |->
                          Group(b, g)], ",")
      [] b.queryType = "UPDATE" ->
           <<L("UPDATE"), Lit(b.table), L("SET")>>
           \o JoinSep(b.setClauses, ",")
      [] b.queryType = "DELETE" ->
           <<L("DELETE FROM"), Lit(b.table)>>

Tokens_orderByFirst(b) ==
    Verb(b)
    \o OptList("ORDER BY", b.orderByColumns, ",")
    \o OptList("WHERE", b.conditions, "AND")
    \o OptList("GROUP BY", b.groupByColumns, ",")
    \o OptNum("LIMIT", b.limitValue)
    \o OptNum("OFFSET", b.offsetValue)
Tokens(b) ==
    Verb(b)
    \o OptList("WHERE", b.conditions, "AND")
    \o OptList("GROUP BY", b.groupByColumns, ",")
    \o OptList("ORDER BY", b.orderByColumns, ",")
    \o OptNum("LIMIT", b.limitValue)
    \o OptNum("OFFSET", b.offsetValue)

\* a bug: build() handing its values over and starting afresh
AfterBuild_consumes(b) == [b EXCEPT !.values = <<>>]
\* build() assigns to no field
AfterBuild(b) == b

build(b) ==
    IF BadArrayLength(b)
    THEN [err |-> "RangeError: Invalid array length", self |-> b]
    ELSE [err |-> NoError, toks |-> Tokens(b), query |-> Text(Tokens(b)),
          params |-> b.values, self |-> AfterBuild(b)]

\* ========================================================= BigQueryClient
\* ---- strings of the select request
\* the first character of a name: `table[0]`
FirstChar(str) ==
    CASE str[1] \in {"users", "uploads"} -> <<"u">>
      [] str[1] = "orders" -> <<"o">>
      [] str[1] = "ghost" -> <<"g">>
      [] OTHER -> <<str[1]>>

includesDot(str) == \E i \in DOMAIN str : str[i] = "."

\* String.split('.'): the pieces between the dots
RECURSIVE split(_)
split(str) ==
    IF ~includesDot(str) THEN <<str>>
    ELSE LET d == CHOOSE i \in DOMAIN str :
                     str[i] = "." /\ \A j \in 1..(i - 1) : str[j] # "."
         IN  <<SubSeq(str, 1, d - 1)>> \o split(SubSeq(str, d + 1, Len(str)))
pop(parts) == parts[Len(parts)]

\* a word character atom: a name; the punctuation atoms are not
IsWord(x) == x \notin {".", "*", "(", ")", " AS ", " ", "-"}
\* String.replace(/\W/g, ''): the string without its non-word atoms
stripNonWord(str) == SelectSeq(str, IsWord)

\* an object used as a map: entries <<key, value>> in insertion order;
\* obj[key] as the set holding the value, empty when the key is absent
Get(obj, key) == {obj[i][2] : i \in {j \in DOMAIN obj : obj[j][1] = key}}
Put(obj, key, value) ==
    IF \E i \in DOMAIN obj : obj[i][1] = key
    THEN [i \in DOMAIN obj |-> IF obj[i][1] = key THEN <<key, value>> ELSE obj[i]]
    ELSE Append(obj, <<key, value>>)
The(set) == CHOOSE x \in set : TRUE
\* a || b on strings: a unless it is undefined or empty
OrElse(opt, dflt) == IF opt = {} \/ opt = {<<>>} THEN dflt ELSE The(opt)

ProjectId == <<"proj">>
DatasetId == <<"ds">>
\* the atom BACKTICK stands for the backtick character
formatTableName(table) ==
    <<"BACKTICK">> \o ProjectId \o <<".">> \o DatasetId \o <<".">> \o table
        \o <<"BACKTICK">>

AGGREGATE_FUNCTIONS ==
    {"SUM", "AVG", "COUNT", "MIN", "MAX", "ARRAY_AGG", "STRING_AGG",
     "BIT_AND", "BIT_OR", "BIT_XOR", "LOGICAL_AND", "LOGICAL_OR",
     "ANY_VALUE", "COUNTIF", "GROUPING", "MAX_BY", "MIN_BY"}

\* col.match(/^(\w+)\((.*?)\)(?:\s+AS\s+(\w+))?$/i): the groups, or {} when
\* the column is not of that shape
matchCall(col) ==
    LET n == Len(col)
        plain == n >= 3 /\ IsWord(col[1]) /\ col[2] = "(" /\ col[n] = ")"
        named == n >= 5 /\ IsWord(col[1]) /\ col[2] = "(" /\ col[n - 2] = ")"
                 /\ col[n - 1] = " AS " /\ IsWord(col[n])
    IN  IF named
        THEN {[func |-> <<col[1]>>, arg |-> SubSeq(col, 3, n - 3),
               alias |-> <<col[n]>>]}
        ELSE IF plain
        THEN {[func |-> <<col[1]>>, arg |-> SubSeq(col, 3, n - 1),
               alias |-> <<>>]}
        ELSE {}

\* one column of the request, as select rewrites it
selectedColumn_prefixesStar(aliasMap, tableRef, col) ==
    LET tableAlias == OrElse(Get(aliasMap, tableRef), FirstChar(tableRef))
        m == matchCall(col)
        funcName == toUpperCase(The(m).func)
        columnName == The(m).arg
        formattedColumn == tableAlias \o <<".">> \o columnName
        userDefinedAlias ==
            IF The(m).alias # <<>> THEN The(m).alias
            ELSE toLowerCase(funcName) \o <<"_">> \o stripNonWord(columnName)
    IN  IF m # {} /\ funcName[1] \in AGGREGATE_FUNCTIONS
        THEN funcName \o <<"(">> \o formattedColumn \o <<")">>
             \o <<" AS ">> \o userDefinedAlias
        ELSE tableAlias \o <<".">> \o col
selectedColumn(aliasMap, tableRef, col) ==
    LET tableAlias == OrElse(Get(aliasMap, tableRef), FirstChar(tableRef))
        m == matchCall(col)
        funcName == toUpperCase(The(m).func)
        columnName == The(m).arg
        formattedColumn == IF columnName = <<"*">> THEN <<"*">>
                           ELSE tableAlias \o <<".">> \o columnName
        userDefinedAlias ==
            IF The(m).alias # <<>> THEN The(m).alias
            ELSE toLowerCase(funcName) \o <<"_">> \o stripNonWord(columnName)
    IN  IF m # {} /\ funcName[1] \in AGGREGATE_FUNCTIONS
        THEN funcName \o <<"(">> \o formattedColumn \o <<")">>
             \o <<" AS ">> \o userDefinedAlias
        ELSE tableAlias \o <<".">> \o col

\* columns: <<"list", cols>> for an array, <<"map", entries>> for an object
normalizedColumns(table, columns) ==
    IF columns[1] = "list" THEN << <<table, columns[2]>> >> ELSE columns[2]

selectedColumns(aliasMap, table, columns) ==
    LET norm == normalizedColumns(table, columns)
    IN  Flatten([i \in DOMAIN norm |->
                    [j \in DOMAIN norm[i][2] |->
                        selectedColumn(aliasMap, norm[i][1], norm[i][2][j])]])

\* the joins loop: the alias map after it and the builder calls it makes
joinAlias(join) == FirstChar(join.table)
joinCondition(aliasMap, mainAlias, join) ==
    [i \in DOMAIN join.on |->
        LET left == join.on[i][1]
            right == join.on[i][2]
            leftAlias == OrElse(Get(aliasMap, split(left)[1]), mainAlias)
            rightAlias == OrElse(Get(aliasMap, join.table), joinAlias(join))
        IN  <<leftAlias \o <<".">> \o pop(split(left)),
              rightAlias \o <<".">> \o pop(split(right))>>]
\* { ...acc, [k]: v }: a later entry with the same key replaces the earlier
RECURSIVE fromEntries(_)
fromEntries(entries) ==
    IF entries = <<>> THEN <<>>
    ELSE LET rest == fromEntries(SubSeq(entries, 1, Len(entries) - 1))
             e == entries[Len(entries)]
         IN  Put(rest, e[1], e[2])

RECURSIVE processJoins(_, _, _, _)
processJoins(r, aliasMap, mainAlias, joins) ==
    IF joins = <<>> \/ r.err # NoError THEN [r |-> r, aliasMap |-> aliasMap]
    ELSE LET join == Head(joins)
             am == Put(aliasMap, join.table, joinAlias(join))
         IN  processJoins(
                 QB_join(r.b,
                         formatTableName(join.table) \o <<" AS ">>
                             \o joinAlias(join),
                         fromEntries(joinCondition(am, mainAlias, join)),
                         OrElse(join.type, <<"INNER">>)),
                 am, mainAlias, Tail(joins))

aliasedWhere(aliasMap, table, mainAlias, where) ==
    fromEntries([i \in DOMAIN where |->
        LET key == where[i][1]
            parts == IF includesDot(key) THEN split(key) ELSE <<table, key>>
            tableAlias == OrElse(Get(aliasMap, parts[1]),
                                 OrElse(Get(aliasMap, table), mainAlias))
        IN  <<tableAlias \o <<".">> \o parts[2], where[i][2]>>])

aliasedGroupBy(aliasMap, table, mainAlias, groupBy) ==
    [i \in DOMAIN groupBy |->
        LET col == groupBy[i]
            parts == IF includesDot(col) THEN split(col) ELSE <<table, col>>
        IN  OrElse(Get(aliasMap, parts[1]), mainAlias) \o <<".">> \o parts[2]]

\* col.match(/AS (\w+)$/i): the aliases of the selected columns
columnAliases(cols) ==
    {<<cols[i][Len(cols[i])]>> :
        i \in {j \in DOMAIN cols :
                 /\ Len(cols[j]) >= 2
                 /\ cols[j][Len(cols[j]) - 1] = " AS "
                 /\ IsWord(cols[j][Len(cols[j])])}}

\* an order entry is [column, direction]; direction <<>> when not given
aliasedOrderBy(aliasMap, cols, orderBy) ==
    [i \in DOMAIN orderBy |->
        LET col == orderBy[i]
            dotted == includesDot(col.column)
            tableRef == IF dotted THEN split(col.column)[1] ELSE <<>>
            colName == IF dotted THEN split(col.column)[2] ELSE col.column
            direction == IF col.direction = <<>> THEN <<"ASC">> ELSE col.direction
        IN  IF colName \in columnAliases(cols)
            THEN <<colName, direction>>
            ELSE IF tableRef # <<>>
            THEN <<OrElse(Get(aliasMap, tableRef), tableRef) \o <<".">> \o colName,
                   direction>>
            ELSE <<colName, direction>>]
orderByInvalid(orderBy) == \E i \in DOMAIN orderBy : orderBy[i].column = <<>>

\* if r threw, r; else what the next builder call makes of r's builder
Then(r, next) == IF r.err # NoError THEN r ELSE next

\* select() up to its await, stage by stage.  A stage takes and returns
\* [r: the builder and the error thrown so far, aliasMap, cols].
selectColumns(options) ==
    LET table == options.table
        mainAlias == FirstChar(table)
        aliasMap == << <<table, mainAlias>> >>
        cols == selectedColumns(aliasMap, table, options.columns)
    IN  [r |-> QB_select(NewQueryBuilder(formatTableName(table) \o <<" AS ">>
                                            \o mainAlias),
                         cols),
         aliasMap |-> aliasMap, cols |-> cols]
selectJoins(s, options) ==
    LET j == processJoins(s.r, s.aliasMap, FirstChar(options.table),
                          options.joins)
    IN  [s EXCEPT !.r = j.r, !.aliasMap = j.aliasMap]
selectWhere(s, options) ==
    IF options.where = {} THEN s
    ELSE [s EXCEPT !.r = Then(@, QB_where(@.b,
              aliasedWhere(s.aliasMap, options.table, FirstChar(options.table),
                           The(options.where))))]
selectGroupBy(s, options) ==
    IF options.groupBy = {} THEN s
    ELSE [s EXCEPT !.r = Then(@, QB_groupBy(@.b,
              aliasedGroupBy(s.aliasMap, options.table,
                             FirstChar(options.table), The(options.groupBy))))]
selectOrderBy(s, options) ==
    IF options.orderBy = {} THEN s
    ELSE [s EXCEPT !.r = Then(@,
              IF orderByInvalid(The(options.orderBy))
              THEN Throw(@.b, "Invalid orderBy format")
              ELSE QB_orderBy(@.b, aliasedOrderBy(s.aliasMap, s.cols,
                                                  The(options.orderBy))))]
\* `if (limit) qb.limit(limit)`: 0 is falsy
selectLimit(s, options) ==
    IF options.limit = {} \/ options.limit = {0} THEN s
    ELSE [s EXCEPT !.r = Then(@, QB_limit(@.b, The(options.limit)))]
selectOffset(s, options) ==
    IF options.offset = {} \/ options.offset = {0} THEN s
    ELSE [s EXCEPT !.r = Then(@, QB_offset(@.b, The(options.offset)))]
\* the builder's statement, or the error thrown
selectBuild(s) ==
    IF s.r.err # NoError THEN [err |-> s.r.err, aliasMap |-> s.aliasMap]
    ELSE IF build(s.r.b).err # NoError
    THEN [err |-> build(s.r.b).err, aliasMap |-> s.aliasMap]
    ELSE [err |-> NoError, query |-> build(s.r.b).query,
          params |-> build(s.r.b).params, aliasMap |-> s.aliasMap]
selectStatement(options) ==
    selectBuild(
        selectOffset(
            selectLimit(
                selectOrderBy(
                    selectGroupBy(
                        selectWhere(
                            selectJoins(selectColumns(options), options),
                            options),
                        options),
                    options),
                options),
            options))


\* ------------------------------------------------- the calls a caller makes
\* A call is [m: the method, a: its arguments other than values, vals: its
\* value arguments in the order the method reads them].
Vals == {"X", "Y"}
Col == <<"id">>
KeyLists == {<<>>, << <<"id">>, <<"name">> >>}
ColumnLists == {<<>>, << <<"*">> >>, << <<"id">>, <<"name">> >>}
RowShapes == { <<>>, << <<>> >>,
               << << <<"id">>, <<"name">> >>, << <<"id">> >> >>,
               << << <<"id">>, <<"name">> >>, << <<"id">>, <<"name">> >> >> }
\* the value arguments of a call with n of them: alternating values, so that
\* neighbouring values differ, starting with either
Tuples(n) ==
    IF n = 0 THEN {<<>>}
    ELSE {[i \in 1..n |-> IF i % 2 = 1 THEN x ELSE CHOOSE y \in Vals : y # x]
          : x \in Vals}
Map(keys, vals) == [i \in DOMAIN keys |-> <<keys[i], vals[i]>>]

RECURSIVE SumLen(_)
SumLen(ss) == IF ss = <<>> THEN 0 ELSE Len(Head(ss)) + SumLen(Tail(ss))
RECURSIVE RowsOf(_, _)
RowsOf(shape, vals) ==
    IF shape = <<>> THEN <<>>
    ELSE LET k == Len(Head(shape))
         IN  <<Map(Head(shape), SubSeq(vals, 1, k))>>
             \o RowsOf(Tail(shape), SubSeq(vals, k + 1, Len(vals)))

Call(m, a, n) == {[m |-> m, a |-> x, vals |-> t] : x \in a, t \in Tuples(n)}
Call1(m, a, n) ==
    {[m |-> m, a |-> x, vals |-> [i \in 1..n |-> IF i % 2 = 1 THEN "X" ELSE "Y"]]
     : x \in a}
Opt(x) == {{}, {x}}

Calls_select == Call("select", ColumnLists, 0)
Calls_selectDistinct ==
    Call("selectDistinct", ColumnLists \ {<<>>}, 0)
Calls_selectAggregate ==
    Call("selectAggregate",
         {<<>>, <<[func |-> <<"sum">>, column |-> Col],
                    [func |-> <<"COUNT">>, column |-> <<"*">>]>>}, 0)
Calls_case ==
    UNION {Call("case", {sh}, Len(sh.conditions) + (IF sh.else THEN 1 ELSE 0))
           : sh \in {[conditions |-> <<>>, else |-> TRUE, alias |-> {}],
                     [conditions |-> << <<"id > 0">> >>, else |-> FALSE,
                      alias |-> {<<"label">>}],
                     [conditions |-> << <<"id > 0">> >>, else |-> TRUE,
                      alias |-> {}]}}
Calls_insert == UNION {Call("insert", {sh}, SumLen(sh)) : sh \in RowShapes}
Calls_update ==
    UNION {Call("update", {ks}, Len(ks))
           : ks \in {<<>>, << <<"name">> >>, << <<"id">>, <<"name">> >>}}
Calls_delete == Call("delete", {<<>>}, 0)
Calls_join ==
    Call("join", {[table |-> t, on |-> on, type |-> ty]
                  : t \in {<<>>, <<"orders">>},
                    on \in {<<>>, << << <<"id">>, <<"user_id">> >> >>},
                    ty \in {<<"LEFT">>}}
                 \ {[table |-> <<>>, on |-> <<>>, type |-> <<"LEFT">>]}, 0)
Calls_groupBy == Call("groupBy", {<<>>, << <<"id">>, <<"name">> >>}, 0)
Calls_orderBy ==
    Call("orderBy", {<<>>, << << <<"id">>, <<>> >>,
                             << <<"name">>, <<"DESC">> >> >>}, 0)
Calls_limit == Call("limit", {-1, 0, 10}, 0)
Calls_offset == Call("offset", {-1, 0, 10}, 0)
Calls_having == UNION {Call("having", {ks}, Len(ks)) : ks \in KeyLists}
Calls_where ==
    UNION {Call("where", {ks}, Len(ks))
           : ks \in {<<>>, << <<"id">> >>, << <<"id">>, <<"name">> >>}}
Calls_whereArray == UNION {Call("whereArray", {n}, n) : n \in {0, 2}}
Calls_tableSample == Call("tableSample", {0, 100, 101}, 0)

\* the helpers whose arguments are a column and n values
OneValue == {"whereLike", "whereNotLike", "wherePartition", "whereJsonField",
             "whereStructField", "whereExtract", "whereDayOfWeek",
             "whereContains", "whereArrayContains", "whereArrayLength",
             "whereNotEqualNullSafe"}
TwoValues == {"whereBetween", "whereDateBetween", "whereTimestampBetween"}
NoValue == {"whereExists", "whereNotExists", "whereNull", "whereNotNull",
            "whereDateComparison", "whereCurrentDate"}
\* the helpers that add a select expression, with or without alias
ColumnHelpers == {"selectFormattedDate", "whereDateTrunc",
                  "whereTimestampTrunc", "selectStringAgg",
                  "selectConditionalSum", "selectWindowFunction",
                  "selectJsonField"}
Calls_helper(m) ==
    IF m \in OneValue THEN Call1(m, {<<>>}, 1)
    ELSE IF m \in TwoValues THEN Call1(m, {<<>>}, 2)
    ELSE IF m \in NoValue THEN Call(m, {<<>>}, 0)
    ELSE IF m \in ColumnHelpers THEN Call(m, Opt(<<"d">>), 0)
    ELSE IF m = "union" THEN Call(m, BOOLEAN, 0)
    ELSE Call(m, {<<>>}, 0)
Helpers == OneValue \cup TwoValues \cup NoValue \cup ColumnHelpers
           \cup {"union", "selectSubquery"}

Apply(b, c) ==
    LET a == c.a
        v == c.vals
    IN
    CASE c.m = "select" -> QB_select(b, a)
      [] c.m = "selectDistinct" -> QB_selectDistinct(b, a)
      [] c.m = "selectAggregate" -> QB_selectAggregate(b, a)
      [] c.m = "case" ->
           QB_case(b, a.conditions, SubSeq(v, 1, Len(a.conditions)),
                   IF a.else THEN {v[Len(v)]} ELSE {}, a.alias)
      [] c.m = "insert" -> QB_insert(b, RowsOf(a, v))
      [] c.m = "update" -> QB_update(b, Map(a, v))
      [] c.m = "delete" -> QB_delete(b)
      [] c.m = "join" -> QB_join(b, a.table, a.on, a.type)
      [] c.m = "groupBy" -> QB_groupBy(b, a)
      [] c.m = "orderBy" -> QB_orderBy(b, a)
      [] c.m = "limit" -> QB_limit(b, a)
      [] c.m = "offset" -> QB_offset(b, a)
      [] c.m = "having" -> QB_having(b, Map(a, v))
      [] c.m = "where" -> QB_where(b, Map(a, v))
      [] c.m = "whereArray" -> QB_whereArray(b, Col, v)
      [] c.m = "tableSample" -> QB_tableSample(b, a)
      [] c.m = "selectSubquery" -> QB_selectSubquery(b, <<"SELECT 1">>, <<"sub">>)
      [] c.m = "whereLike" -> QB_whereLike(b, Col, v[1])
      [] c.m = "whereNotLike" -> QB_whereNotLike(b, Col, v[1])
      [] c.m = "whereExists" -> QB_whereExists(b, <<"SELECT 1">>)
      [] c.m = "whereNotExists" -> QB_whereNotExists(b, <<"SELECT 1">>)
      [] c.m = "whereBetween" -> QB_whereBetween(b, Col, v[1], v[2])
      [] c.m = "union" -> QB_union(b, <<"SELECT 1">>, a)
      [] c.m = "wherePartition" -> QB_wherePartition(b, Col, v[1])
      [] c.m = "whereJsonField" -> QB_whereJsonField(b, Col, <<"path">>, v[1])
      [] c.m = "whereNull" -> QB_whereNull(b, Col)
      [] c.m = "whereNotNull" -> QB_whereNotNull(b, Col)
      [] c.m = "whereStructField" -> QB_whereStructField(b, Col, <<"f">>, v[1])
      [] c.m = "whereDateBetween" -> QB_whereDateBetween(b, Col, v[1], v[2])
      [] c.m = "whereExtract" -> QB_whereExtract(b, Col, <<"YEAR">>, v[1])
      [] c.m = "whereDayOfWeek" -> QB_whereDayOfWeek(b, Col, v[1])
      [] c.m = "whereDateComparison" ->
           QB_whereDateComparison(b, Col, <<"<=">>, <<"name">>)
      [] c.m = "selectFormattedDate" ->
           QB_selectFormattedDate(b, Col, <<"%Y">>, a)
      [] c.m = "whereCurrentDate" -> QB_whereCurrentDate(b, Col)
      [] c.m = "whereTimestampBetween" ->
           QB_whereTimestampBetween(b, Col, v[1], v[2])
      [] c.m = "whereDateTrunc" -> QB_whereDateTrunc(b, Col, <<"DAY">>, a)
      [] c.m = "whereTimestampTrunc" ->
           QB_whereTimestampTrunc(b, Col, <<"HOUR">>, a)
      [] c.m = "whereContains" -> QB_whereContains(b, Col, v[1])
      [] c.m = "whereArrayContains" -> QB_whereArrayContains(b, Col, v[1])
      [] c.m = "whereArrayLength" -> QB_whereArrayLength(b, Col, v[1], <<">">>)
      [] c.m = "whereNotEqualNullSafe" ->
           QB_whereNotEqualNullSafe(b, Col, v[1])
      [] c.m = "selectStringAgg" -> QB_selectStringAgg(b, Col, <<";">>, a)
      [] c.m = "selectConditionalSum" ->
           QB_selectConditionalSum(b, Col, <<"id > 0">>, a)
      [] c.m = "selectWindowFunction" ->
           QB_selectWindowFunction(b, <<"RANK">>, Col, <<"name">>, a)
      [] c.m = "selectJsonField" -> QB_selectJsonField(b, Col, <<"path">>, a)

\* ------------------------------------------------------------ the machine
VARIABLES
    qb,        \* the builder under test
    out,       \* what its last build() returned, NoOut after a later call
    raised,    \* the error the last call raised, NoError when it returned
    lastCall,  \* the method last called
    ncalls,    \* how many builder methods were called
    given,     \* the params list the last build() returned, as its caller holds it
    qb2, out2, \* a second builder, driven by the same calls with other values
    config,     \* the configuration the client was constructed with
    calls,      \* the client operations started, each with its position
    sent,       \* the requests handed to the warehouse, in order
    validated,  \* the statements QueryValidator has accepted
    logEntries, \* Logger.logEntries
    metrics,    \* MetricsCollector.metrics
    cache,      \* QueryCache.cache, entries in insertion order
    now,        \* Date.now()
    ret,        \* the last call made on the QueryCache directly, and its return
    hist,       \* per cache key: its last set, and when it was last used and read
    tx,         \* a Transaction on the client: its queries and where excute() is
    pool,       \* a Pool: its configuration, its metrics and its last call
    logged,     \* the entries handed to the Logger since the last clearLogs()
    recorded,   \* the queries handed to the MetricsCollector since the last reset()
    checked     \* the last call of validateParameters: its argument and its error

builderVars == <<qb, out, raised, lastCall, ncalls, given>>
pairVars == <<qb2, out2>>
clientVars ==
    <<config, calls, sent, validated, logEntries, metrics, cache, now, ret, hist>>
partVars == <<tx, pool, logged, recorded, checked>>
vars == <<builderVars, pairVars, clientVars, partVars>>

Table == <<"users">>
NoOut == [err |-> "not built"]
NoCall == [m |-> "new", invalid |-> FALSE, again |-> FALSE]
\* no build() has returned yet
NoGiven == [built |-> FALSE, params |-> <<>>, was |-> <<>>, shared |-> FALSE]

\* the calls whose argument is structurally invalid: an empty required list
\* or map, an empty table name, a number out of range
Invalid(c) ==
    CASE c.m \in {"insert", "update", "having", "groupBy", "orderBy"} ->
           Len(c.a) = 0
      [] c.m = "join" -> c.a.table = <<>> \/ Len(c.a.on) = 0
      [] c.m \in {"limit", "offset"} -> c.a < 0
      [] c.m = "tableSample" -> c.a <= 0 \/ c.a > 100
      [] c.m = "whereArray" -> c.a = 0
      [] OTHER -> FALSE

\* the cache configuration the model constructs its client with: entries
\* live CacheTtl ticks of the clock, and the cache holds CacheMaxSize of them
CacheTtl == 1
CacheMaxSize == 2

\* the keys the cache is called with directly: the empty string is one
CacheKeys == {<<>>, <<"a">>, <<"b">>}
NoRet ==
    [op |-> "none", key |-> <<>>, result |-> {}, at |-> 0, before |-> <<>>,
     evicted |-> {}, n |-> 0]
NoHist ==
    [written |-> [k \in CacheKeys |-> {}], lastUse |-> [k \in CacheKeys |-> 0],
     lastGet |-> [k \in CacheKeys |-> 0]]

\* nothing logged yet, n calls made on the Logger; nothing recorded yet, n
\* calls made on the MetricsCollector
NoLogged == [entries |-> <<>>, n |-> 0]
NoRecorded == [queries |-> <<>>, n |-> 0, last |-> "none"]
\* no call of validateParameters made yet
NoChecked == [op |-> "none", arg |-> [array |-> TRUE, items |-> <<>>],
              threw |-> [name |-> "none", message |-> "", code |-> "none"]]
\* new Transaction(client)
NewTransaction ==
    [queries |-> <<>>, pc |-> "idle", ran |-> <<>>, settled |-> "pending",
     error |-> {}]
\* DEFAULT_POOL_CONFIG.max
DEFAULT_POOL_MAX == 10
\* new Pool({max}); last is the last call made on it, with the metrics it
\* found and the error it threw, if any; held counts the connections acquire
\* handed out that were not released since, and foreign tells that release
\* was called with none of them left to give back
NewPool(max) ==
    [max |-> max,
     metrics |-> [activeConnections |-> 0, waitingRequests |-> 0,
                  totalQueries |-> 0],
     last |-> [op |-> "none", threw |-> {},
               before |-> [activeConnections |-> 0, waitingRequests |-> 0,
                           totalQueries |-> 0]],
     held |-> 0, foreign |-> FALSE, n |-> 0]

NewMetrics ==
    [queries |-> <<>>, errors |-> <<>>,
     performance |-> [averageExecutionTime |-> <<0, 1>>,
                      totalBytesProcessed |-> 0]]

\* new BigQueryClient({enableLogging, enableCache, cacheTtl, cacheMaxSize})
Constructed(enableLogging, enableCache) ==
    /\ config = [enableLogging |-> enableLogging, enableCache |-> enableCache,
                 cacheTtl |-> CacheTtl, cacheMaxSize |-> CacheMaxSize]
    /\ calls = <<>>
    /\ sent = <<>>
    /\ validated = {}
    /\ logEntries = <<>>
    /\ metrics = NewMetrics
    /\ cache = <<>>
    /\ now = 0
    /\ ret = NoRet
    /\ hist = NoHist
    /\ tx = NewTransaction
    /\ logged = NoLogged
    /\ recorded = NoRecorded
    /\ checked = NoChecked

NewBuilders ==
    /\ qb = NewQueryBuilder(Table)
    /\ out = NoOut
    /\ raised = NoError
    /\ lastCall = NoCall
    /\ ncalls = 0
    /\ given = NoGiven
    /\ qb2 = NewQueryBuilder(Table)
    /\ out2 = NoOut

Init == NewBuilders /\ Constructed(FALSE, FALSE) /\ pool = NewPool(DEFAULT_POOL_MAX)

\* `return { query, params: this.values }`: the list build() hands out is
\* the builder's own array, not a copy; was is what it held at the return
Given(g, o) ==
    IF o.err # NoError THEN g
    ELSE [built |-> TRUE, params |-> o.params, was |-> o.params,
          shared |-> TRUE]
\* the list after the call c that left the builder as r: insert() assigns a
\* new array to this.values, every other method pushes onto the array there
\* is, the one the caller of build() holds
Aliased(g, c, r) ==
    IF ~g.shared THEN g
    ELSE IF c.m = "insert" /\ r.err = NoError THEN [g EXCEPT !.shared = FALSE]
    ELSE [g EXCEPT !.params = r.b.values]

\* one call of a builder method: the builder as the method leaves it, and
\* the error it raised
Step(c) ==
    /\ ncalls < MaxCalls
    /\ qb' = Apply(qb, c).b
    /\ raised' = Apply(qb, c).err
    /\ lastCall' = [m |-> c.m, invalid |-> Invalid(c), again |-> FALSE]
    /\ ncalls' = ncalls + 1
    /\ out' = NoOut
    /\ given' = Aliased(given, c, Apply(qb, c))
    /\ UNCHANGED <<pairVars, clientVars, partVars>>
Do(S) == \E c \in S : Step(c)

Select == Do(Calls_select)
SelectDistinct == Do(Calls_selectDistinct)
SelectAggregate == Do(Calls_selectAggregate)
Case == Do(Calls_case)
Insert == Do(Calls_insert)
Update == Do(Calls_update)
Delete == Do(Calls_delete)
Join == Do(Calls_join)
GroupBy == Do(Calls_groupBy)
OrderBy == Do(Calls_orderBy)
Limit == Do(Calls_limit)
Offset == Do(Calls_offset)
Having == Do(Calls_having)
Where == Do(Calls_where)
WhereArray == Do(Calls_whereArray)
TableSample == Do(Calls_tableSample)
SelectSubquery == Do(Calls_helper("selectSubquery"))
WhereLike == Do(Calls_helper("whereLike"))
WhereNotLike == Do(Calls_helper("whereNotLike"))
WhereExists == Do(Calls_helper("whereExists"))
WhereNotExists == Do(Calls_helper("whereNotExists"))
WhereBetween == Do(Calls_helper("whereBetween"))
Union == Do(Calls_helper("union"))
WherePartition == Do(Calls_helper("wherePartition"))
WhereJsonField == Do(Calls_helper("whereJsonField"))
WhereNull == Do(Calls_helper("whereNull"))
WhereNotNull == Do(Calls_helper("whereNotNull"))
WhereStructField == Do(Calls_helper("whereStructField"))
WhereDateBetween == Do(Calls_helper("whereDateBetween"))
WhereExtract == Do(Calls_helper("whereExtract"))
WhereDayOfWeek == Do(Calls_helper("whereDayOfWeek"))
WhereDateComparison == Do(Calls_helper("whereDateComparison"))
SelectFormattedDate == Do(Calls_helper("selectFormattedDate"))
WhereCurrentDate == Do(Calls_helper("whereCurrentDate"))
WhereTimestampBetween == Do(Calls_helper("whereTimestampBetween"))
WhereDateTrunc == Do(Calls_helper("whereDateTrunc"))
WhereTimestampTrunc == Do(Calls_helper("whereTimestampTrunc"))
WhereContains == Do(Calls_helper("whereContains"))
WhereArrayContains == Do(Calls_helper("whereArrayContains"))
WhereArrayLength == Do(Calls_helper("whereArrayLength"))
WhereNotEqualNullSafe == Do(Calls_helper("whereNotEqualNullSafe"))
SelectStringAgg == Do(Calls_helper("selectStringAgg"))
SelectConditionalSum == Do(Calls_helper("selectConditionalSum"))
SelectWindowFunction == Do(Calls_helper("selectWindowFunction"))
SelectJsonField == Do(Calls_helper("selectJsonField"))

Build ==
    /\ out' = build(qb)
    /\ qb' = build(qb).self
    /\ raised' = build(qb).err
    /\ lastCall' = [m |-> "build", invalid |-> FALSE,
                    again |-> lastCall.m = "build"]
    /\ given' = Given(given, build(qb))
    /\ UNCHANGED <<ncalls, pairVars, clientVars, partVars>>

BuilderNext ==
    \/ Select \/ SelectDistinct \/ SelectAggregate \/ Case
    \/ Insert \/ Update \/ Delete \/ Join
    \/ GroupBy \/ OrderBy \/ Limit \/ Offset
    \/ Having \/ Where \/ WhereArray \/ TableSample
    \/ SelectSubquery \/ WhereLike \/ WhereNotLike \/ WhereExists
    \/ WhereNotExists \/ WhereBetween \/ Union \/ WherePartition
    \/ WhereJsonField \/ WhereNull \/ WhereNotNull \/ WhereStructField
    \/ WhereDateBetween \/ WhereExtract \/ WhereDayOfWeek \/ WhereDateComparison
    \/ SelectFormattedDate \/ WhereCurrentDate \/ WhereTimestampBetween \/ WhereDateTrunc
    \/ WhereTimestampTrunc \/ WhereContains \/ WhereArrayContains \/ WhereArrayLength
    \/ WhereNotEqualNullSafe \/ SelectStringAgg \/ SelectConditionalSum \/ SelectWindowFunction
    \/ SelectJsonField
    \/ Build

Spec == Init /\ [][BuilderNext]_vars

\* Two builders receive the same calls.  The values of every call to qb2 are
\* chosen from Vals; qb receives the reference value "R" for every value.  Two call sequences that
\* differ in their values only both have the reference sequence as their
\* companion, so agreeing with it is agreeing with each other.
Reference(c) == [c EXCEPT !.vals = [i \in DOMAIN c.vals |-> "R"]]
PairStep(S) ==
    \E c \in S :
        /\ ncalls < MaxCalls
        /\ qb' = Apply(qb, Reference(c)).b
        /\ qb2' = Apply(qb2, c).b
        /\ raised' = Apply(qb2, c).err
        /\ lastCall' = [m |-> c.m, invalid |-> Invalid(c), again |-> FALSE]
        /\ ncalls' = ncalls + 1
        /\ out' = NoOut
        /\ out2' = NoOut
        /\ given' = Aliased(given, Reference(c), Apply(qb, Reference(c)))
        /\ UNCHANGED <<clientVars, partVars>>
PairCall ==
    \/ \E m \in Helpers : PairStep(Calls_helper(m))
    \/ PairStep(Calls_select)
    \/ PairStep(Calls_selectDistinct)
    \/ PairStep(Calls_selectAggregate)
    \/ PairStep(Calls_case)
    \/ PairStep(Calls_insert)
    \/ PairStep(Calls_update)
    \/ PairStep(Calls_delete)
    \/ PairStep(Calls_join)
    \/ PairStep(Calls_groupBy)
    \/ PairStep(Calls_orderBy)
    \/ PairStep(Calls_limit)
    \/ PairStep(Calls_offset)
    \/ PairStep(Calls_having)
    \/ PairStep(Calls_where)
    \/ PairStep(Calls_whereArray)
    \/ PairStep(Calls_tableSample)
PairBuild ==
    /\ out' = build(qb)
    /\ out2' = build(qb2)
    /\ qb' = build(qb).self
    /\ qb2' = build(qb2).self
    /\ raised' = build(qb).err
    /\ lastCall' = [m |-> "build", invalid |-> FALSE,
                    again |-> lastCall.m = "build"]
    /\ given' = Given(given, build(qb))
    /\ UNCHANGED <<ncalls, clientVars, partVars>>
PairNext == PairCall \/ PairBuild
SpecPair == Init /\ [][PairNext]_vars

\* ======================================================= the client's parts
\* ---- errors: [name, message, code]
NoErr == [name |-> "none", message |-> "", code |-> "none"]
Error(msg) == [name |-> "Error", message |-> msg, code |-> "none"]
BigQueryError(msg, code) == [name |-> "BigQueryError", message |-> msg, code |-> code]
ValidationError(msg) ==
    [name |-> "ValidationError", message |-> msg, code |-> "VALIDATION_ERROR"]
\* the error a builder call or build() threw
ConnectionError(msg) ==
    [name |-> "ConnectionError", message |-> msg, code |-> "CONNECTION_ERROR"]
ErrorOf(msg) ==
    IF msg = "RangeError: Invalid array length"
    THEN [name |-> "RangeError", message |-> "Invalid array length", code |-> "none"]
    ELSE Error(msg)

\* ---- QueryValidator, over a statement as a string of atoms: a word, a
\* punctuation mark, or a run of white space is one atom
IsSpace(x) == x \in {" ", "NL"}
SqlUpper(x) ==
    CASE x \in {"drop", "DROP"} -> "DROP"
      [] x \in {"or", "OR"} -> "OR"
      [] OTHER -> x
\* the position after the white space that starts at i
RECURSIVE skipSpace(_, _)
skipSpace(str, i) ==
    IF i <= Len(str) /\ IsSpace(str[i]) THEN skipSpace(str, i + 1) ELSE i
At(str, i) == IF i \in DOMAIN str THEN SqlUpper(str[i]) ELSE "END"
\* `.*` between two positions: no line break in between
SameLine(str, i, j) == \A k \in (i + 1)..(j - 1) : str[k] # "NL"

\* /;\s*(DROP|ALTER|TRUNCATE|DELETE)\s+/i
afterSemicolon(str) ==
    \E i \in DOMAIN str :
        /\ str[i] = ";"
        /\ At(str, skipSpace(str, i + 1)) \in {"DROP", "ALTER", "TRUNCATE", "DELETE"}
        /\ IsSpace(At(str, skipSpace(str, i + 1) + 1))
\* /UNION\s+SELECT.*FROM/i
unionSelect(str) ==
    \E i, j \in DOMAIN str :
        /\ At(str, i) = "UNION" /\ IsSpace(At(str, i + 1))
        /\ At(str, skipSpace(str, i + 1)) = "SELECT"
        /\ j > skipSpace(str, i + 1) /\ At(str, j) = "FROM"
        /\ SameLine(str, skipSpace(str, i + 1), j)
\* /\bEXEC\s*\(/i
execCall(str) ==
    \E i \in DOMAIN str :
        At(str, i) = "EXEC" /\ At(str, skipSpace(str, i + 1)) = "("
\* /\bWAITFOR\s+DELAY/i
waitforDelay(str) ==
    \E i \in DOMAIN str :
        /\ At(str, i) = "WAITFOR" /\ IsSpace(At(str, i + 1))
        /\ At(str, skipSpace(str, i + 1)) = "DELAY"
\* /--\s*$/
trailingComment(str) ==
    \E i \in DOMAIN str : str[i] = "--" /\ skipSpace(str, i + 1) = Len(str) + 1
\* /\/\*.*\*\//
blockComment(str) ==
    \E i, j \in DOMAIN str :
        i < j /\ str[i] = "/*" /\ str[j] = "*/" /\ SameLine(str, i, j)
\* /'\s*OR\s*'.*'=/i
quotedOr(str) ==
    \E i, j \in DOMAIN str :
        /\ str[i] = "'" /\ At(str, skipSpace(str, i + 1)) = "OR"
        /\ At(str, skipSpace(str, skipSpace(str, i + 1) + 1)) = "'"
        /\ j > skipSpace(str, skipSpace(str, i + 1) + 1)
        /\ str[j] = "'" /\ At(str, j + 1) = "="
        /\ SameLine(str, skipSpace(str, skipSpace(str, i + 1) + 1), j)
\* /'\s*;\s*DROP/i
quotedDrop(str) ==
    \E i \in DOMAIN str :
        /\ str[i] = "'" /\ At(str, skipSpace(str, i + 1)) = ";"
        /\ At(str, skipSpace(str, skipSpace(str, i + 1) + 1)) = "DROP"

sqlInjectionPatterns(str) ==
    \/ afterSemicolon(str) \/ unionSelect(str) \/ execCall(str)
    \/ waitforDelay(str) \/ trailingComment(str) \/ blockComment(str)
    \/ quotedOr(str) \/ quotedDrop(str)

\* the error validateQuery throws, NoErr when it returns
validateQuery(str) ==
    IF str = <<>>
    THEN ValidationError("Invalid query: Query must be a non-empty string")
    ELSE IF sqlInjectionPatterns(str)
    THEN ValidationError("Potential SQL injection detected")
    ELSE NoErr

\* an argument of validateParameters: an array with its items, or a value
\* that is no array (a string, a number, an object)
ArrayOf(items) == [array |-> TRUE, items |-> items]
NotAnArray == [array |-> FALSE, items |-> <<>>]
\* the error validateParameters throws, NoErr when it returns
validateParameters_nullOnly(params) ==
    IF ~params.array THEN ValidationError("Parameters must be an array")
    ELSE IF \E i \in DOMAIN params.items : params.items[i].val = "null"
    THEN ValidationError("Parameters cannot be undefined or null")
    ELSE NoErr
validateParameters(params) ==
    IF ~params.array THEN ValidationError("Parameters must be an array")
    ELSE IF \E i \in DOMAIN params.items :
                params.items[i].val \in {"undefined", "null"}
    THEN ValidationError("Parameters cannot be undefined or null")
    ELSE NoErr

\* ---- Logger
maxEntries == 1000
Logger_log_unshifts(entries, enabled, entry) ==
    IF ~enabled THEN entries
    ELSE LET pushed == <<entry>> \o entries
         IN  IF Len(pushed) > maxEntries THEN Tail(pushed) ELSE pushed
Logger_log(entries, enabled, entry) ==
    IF ~enabled THEN entries
    ELSE LET pushed == Append(entries, entry)
         IN  IF Len(pushed) > maxEntries THEN Tail(pushed) ELSE pushed
errorEntry(error, t) ==
    [timestamp |-> t, level |-> "error", query |-> <<>>, params |-> <<>>,
     executionTime |-> 0, error |-> error]
logError(entries, enabled, error, t) ==
    Logger_log(entries, enabled, errorEntry(error, t))
queryEntry(query, ps, t) ==
    [timestamp |-> t, level |-> "info", query |-> query,
     params |-> OrElse(ps, <<>>), executionTime |-> 0, error |-> NoErr]
logQuery(entries, enabled, query, ps, t) ==
    Logger_log(entries, enabled, queryEntry(query, ps, t))

\* ---- MetricsCollector; the average is kept as <<sum, count>>
RECURSIVE Sum(_)
Sum(ns) == IF ns = <<>> THEN 0 ELSE Head(ns) + Sum(Tail(ns))
updatePerformanceMetrics_overOneMore(m) ==
    IF Len(m.queries) = 0 THEN m
    ELSE [m EXCEPT !.performance =
             [averageExecutionTime |->
                  <<Sum([i \in DOMAIN m.queries |-> m.queries[i].executionTime]),
                    Len(m.queries) + 1>>,
              totalBytesProcessed |->
                  Sum([i \in DOMAIN m.queries |-> m.queries[i].bytesProcessed])]]
updatePerformanceMetrics(m) ==
    IF Len(m.queries) = 0 THEN m
    ELSE [m EXCEPT !.performance =
             [averageExecutionTime |->
                  <<Sum([i \in DOMAIN m.queries |-> m.queries[i].executionTime]),
                    Len(m.queries)>>,
              totalBytesProcessed |->
                  Sum([i \in DOMAIN m.queries |-> m.queries[i].bytesProcessed])]]
recordQuery(m, q) ==
    updatePerformanceMetrics([m EXCEPT !.queries = Append(@, q)])
recordError(m, error) == [m EXCEPT !.errors = Append(@, error)]

\* ---- QueryCache: entries [key, result, timestamp] in insertion order
Without(entries, key) == SelectSeq(entries, LAMBDA e : e.key # key)
Entry(entries, key) ==
    {entries[i] : i \in {j \in DOMAIN entries : entries[j].key = key}}
\* get: the cache after the call and the result, {} for null
cacheGet_expiresAtTtl(entries, cfg, key, t) ==
    IF ~cfg.enableCache \/ Entry(entries, key) = {}
    THEN [cache |-> entries, result |-> {}]
    ELSE IF t - The(Entry(entries, key)).timestamp >= cfg.cacheTtl
    THEN [cache |-> Without(entries, key), result |-> {}]
    ELSE [cache |-> entries, result |-> {The(Entry(entries, key)).result}]
cacheGet(entries, cfg, key, t) ==
    IF ~cfg.enableCache \/ Entry(entries, key) = {}
    THEN [cache |-> entries, result |-> {}]
    ELSE IF t - The(Entry(entries, key)).timestamp > cfg.cacheTtl
    THEN [cache |-> Without(entries, key), result |-> {}]
    ELSE [cache |-> entries, result |-> {The(Entry(entries, key)).result}]
\* the first entry with the least timestamp goes, unless its key is the
\* empty string: `if (oldestKey)` is false for it
evictOldest(entries) ==
    IF entries = <<>> THEN entries
    ELSE LET oldest == CHOOSE i \in DOMAIN entries :
                 /\ \A j \in DOMAIN entries :
                        entries[i].timestamp <= entries[j].timestamp
                 /\ \A j \in 1..(i - 1) :
                        entries[j].timestamp > entries[i].timestamp
         IN  IF entries[oldest].key = <<>> THEN entries
             ELSE Without(entries, entries[oldest].key)
\* Map.set: a key already present keeps its place
mapSet_appends(entries, e) == Append(entries, e)
mapSet(entries, e) ==
    IF Entry(entries, e.key) = {} THEN Append(entries, e)
    ELSE [i \in DOMAIN entries |->
             IF entries[i].key = e.key THEN e ELSE entries[i]]
\* `if (this.cache.size >= this.config.maxSize) this.evictOldest()`
madeRoom(entries, cfg) ==
    IF Len(entries) >= cfg.cacheMaxSize THEN evictOldest(entries) ELSE entries
cacheSet_whenDisabled(entries, cfg, key, value, t) ==
    mapSet(madeRoom(entries, cfg),
           [key |-> key, result |-> value, timestamp |-> t])
cacheSet(entries, cfg, key, value, t) ==
    IF ~cfg.enableCache THEN entries
    ELSE mapSet(madeRoom(entries, cfg),
                [key |-> key, result |-> value, timestamp |-> t])

\* Array.join on strings
RECURSIVE JoinStr(_, _)
JoinStr(strs, sep) ==
    IF strs = <<>> THEN <<>>
    ELSE IF Len(strs) = 1 THEN Head(strs)
    ELSE Head(strs) \o sep \o JoinStr(Tail(strs), sep)

\* JSON.stringify of one element of an array: a string in quotes (the atom
\* QUOTE); undefined, null, NaN and Infinity as null
jsonValue(p) ==
    IF p.val \in {"undefined", "null", "NaN", "Infinity"} THEN <<"null">>
    ELSE <<"QUOTE", p.val, "QUOTE">>
\* `${sql}:${JSON.stringify(params || [])}`
generateCacheKey(sql, ps) ==
    sql \o <<":", "[">>
    \o JoinStr([i \in DOMAIN OrElse(ps, <<>>) |-> jsonValue(OrElse(ps, <<>>)[i])],
               <<",">>)
    \o <<"]">>

\* ---- the statements the client writes itself
\* a WHEN clause of merge; w is <<"list", strings>> or <<"str", string>>.
\* An empty list is truthy and is written as the empty string.
whenClause(kw, w) ==
    IF w[1] = "list" /\ Len(w[2]) > 0 THEN kw \o JoinStr(w[2], <<" ">>)
    ELSE IF w[1] = "list" \/ w[2] # <<>> THEN kw \o (IF w[1] = "list" THEN <<>> ELSE w[2])
    ELSE <<>>
mergeQuery(o) ==
    <<"NL", "MERGE", " ", "INTO", " ">> \o formatTableName(o.targetTable)
    \o <<" ", "AS", " ", "target", "NL", "USING", " ">>
    \o formatTableName(o.sourceTable)
    \o <<" ", "AS", " ", "source", "NL", "ON", " ">>
    \o JoinStr([i \in DOMAIN o.on |-> o.on[i][1] \o <<" ", "=", " ">> \o o.on[i][2]],
               <<" ", "AND", " ">>)
    \o <<"NL">>
    \o whenClause(<<"WHEN", " ", "MATCHED", " ", "THEN", " ">>, o.whenMatched)
    \o <<"NL">>
    \o whenClause(<<"WHEN", " ", "NOT", " ", "MATCHED", " ", "THEN", " ">>,
                  o.whenNotMatched)
    \o <<"NL">>

materializedViewQuery(cfg) ==
    <<"NL", "CREATE", " ", "MATERIALIZED", " ", "VIEW", " ">>
    \o formatTableName(cfg.name)
    \o <<"NL", "AS", " ">> \o cfg.query
    \o <<"NL", "REFRESH", " ", "EVERY", " ">> \o cfg.refreshInterval
    \o <<"NL">>
    \o (IF cfg.partitionField = {} \/ cfg.partitionField = {<<>>} THEN <<>>
        ELSE <<"PARTITION", " ", "BY", " ">> \o The(cfg.partitionField))
    \o <<"NL">>

generateSchemaString(schema) ==
    JoinStr([i \in DOMAIN schema |-> schema[i][1] \o <<" ">> \o schema[i][2]],
            <<",", " ">>)
partitionedTableQuery(cfg) ==
    <<"NL", "CREATE", " ", "TABLE", " ">> \o formatTableName(cfg.name)
    \o <<"NL", "(">> \o generateSchemaString(cfg.schema) \o <<")">>
    \o <<"NL", "PARTITION", " ", "BY", " ">> \o cfg.partitionType
    \o <<"(">> \o cfg.partitionField \o <<")", "NL">>

\* the query delete sends after its DELETE
checkQuery(table) ==
    <<"SELECT", " ", "COUNT", "(", "*", ")", " ", "AS", " ", "count", " ",
      "FROM", " ">> \o formatTableName(table)
    \o <<" ", "WHERE", " ", "user_id", " ", "=", " ", "?">>

\* ---- client calls in flight
\* what a call returns: success is "n/a" for a result without that field
Value(success, rows, executionTime, bytesProcessed, cacheHit) ==
    [success |-> success, rows |-> rows, executionTime |-> executionTime,
     bytesProcessed |-> bytesProcessed, cacheHit |-> cacheHit]
\* a call: the operation, its arguments, its position, its locals, and what
\* its promise has settled to; caught is the error its catch clause received
NewCall(op, args) ==
    [op |-> op, args |-> args, pc |-> "start", query |-> <<>>, params |-> <<>>,
     key |-> generateCacheKey(<<>>, {}), cached |-> {}, startTime |-> 0,
     aliasMap |-> <<>>, userId |-> Scalar("undefined"), affected |-> 0,
     caught |-> NoErr, settled |-> "pending",
     value |-> Value("n/a", 0, 0, 0, FALSE), error |-> NoErr]
Resolve(c, v) == [c EXCEPT !.pc = "done", !.settled = "resolved", !.value = v]
Reject(c, e) == [c EXCEPT !.pc = "done", !.settled = "rejected", !.error = e]
\* a request to the warehouse: a statement for bigQuery.query, rows for
\* table.insert
Request(api, query, params) == [api |-> api, query |-> query, params |-> params]
\* the request as sent records it: by is the call that sent it
SentBy(i, req) == [by |-> i, req |-> req]
NetworkError == Error("network failure")
\* the replies of the warehouse: no row, one row, or a failure
Replies ==
    {[ok |-> TRUE, rows |-> 0, bytes |-> 0], [ok |-> TRUE, rows |-> 1, bytes |-> 1],
     [ok |-> FALSE, rows |-> 0, bytes |-> 0]}

\* ---- what the caller asks for
MaxOps == 1
MaxTime == 2

Sql == <<"SELECT", " ", "1">>
QueryInputs ==
    {[sql |-> Sql, params |-> {}],
     [sql |-> Sql, params |-> {<<Scalar("X")>>}],
     [sql |-> Sql, params |-> {<<Scalar("null")>>}],
     [sql |-> <<>>, params |-> {}],
     [sql |-> Sql \o <<";", " ", "drop", " ", "TABLE", " ", "users">>,
      params |-> {}],
     [sql |-> Sql \o <<" ", "--">>, params |-> {}]}

BaseRequest ==
    [table |-> <<"users">>, columns |-> <<"list", << <<"name">> >> >>,
     joins |-> <<>>, where |-> {}, groupBy |-> {}, orderBy |-> {},
     limit |-> {}, offset |-> {}]
OrdersJoin ==
    [table |-> <<"orders">>,
     on |-> << << <<"users", ".", "id">>, <<"orders", ".", "user_id">> >> >>,
     type |-> {}]
UploadsJoin ==
    [table |-> <<"uploads">>,
     on |-> << << <<"users", ".", "id">>, <<"uploads", ".", "user_id">> >> >>,
     type |-> {<<"LEFT">>}]
\* a request for aggregates: of every row, with an alias given, of an
\* expression with a non-word character, and a function that is no aggregate
AggregateRequest ==
    [BaseRequest EXCEPT
       !.columns = <<"list", << <<"COUNT", "(", "*", ")">>,
                                <<"sum", "(", "price", ")", " AS ", "total">>,
                                <<"SUM", "(", "unit", "-", "price", ")">>,
                                <<"upper", "(", "name", ")">> >> >>,
       !.orderBy = {<< [column |-> <<"total">>, direction |-> <<>>],
                       [column |-> <<"name">>, direction |-> <<"DESC">>],
                       [column |-> <<"users", ".", "id">>,
                        direction |-> <<>>] >>}]
\* requests whose every dotted prefix names a table of the request, requests
\* with the prefix of a table that is not in the request, and one with an
\* empty ORDER BY list
SelectRequests ==
    {[BaseRequest EXCEPT !.where = {<< << <<"id">>, "X" >> >>}],
     [BaseRequest EXCEPT
        !.columns = <<"map", << << <<"users">>, << <<"name">> >> >>,
                                << <<"orders">>,
                                   << <<"sum", "(", "price", ")">> >> >> >> >>,
        !.joins = <<OrdersJoin>>,
        !.where = {<< << <<"orders", ".", "status">>, "X" >> >>},
        !.groupBy = {<< <<"users", ".", "name">> >>},
        !.orderBy = {<< [column |-> <<"orders", ".", "total">>,
                         direction |-> <<"DESC">>] >>},
        !.limit = {10}, !.offset = {0}],
     [BaseRequest EXCEPT !.joins = <<UploadsJoin>>],
     [BaseRequest EXCEPT !.where = {<< << <<"ghost", ".", "id">>, "X" >> >>}],
     [BaseRequest EXCEPT !.groupBy = {<< <<"ghost", ".", "name">> >>}],
     [BaseRequest EXCEPT !.orderBy = {<< [column |-> <<"ghost", ".", "name">>,
                                          direction |-> <<>>] >>}],
     [BaseRequest EXCEPT !.orderBy = {<<>>}],
     [BaseRequest EXCEPT !.limit = {0}],
     AggregateRequest}

Row1 == << << <<"id">>, "X" >> >>
Row2 == << << <<"id">>, "X" >>, << <<"name">>, "Y" >> >>
InsertInputs == {<<>>, <<Row1>>, <<Row2, Row1>>}
UpdateInputs ==
    {[set |-> << << <<"name">>, "X" >> >>, where |-> << << <<"id">>, "Y" >> >>],
     [set |-> <<>>, where |-> << << <<"id">>, "Y" >> >>],
     [set |-> << << <<"name">>, "X" >> >>, where |-> <<>>]}
DeleteInputs ==
    {<< << <<"user_id">>, "X" >> >>, << << <<"id">>, "X" >> >>, <<>>}
MergeInputs ==
    {[targetTable |-> <<"users">>, sourceTable |-> <<"uploads">>,
      on |-> << << <<"target", ".", "id">>, <<"source", ".", "id">> >> >>,
      whenMatched |-> w, whenNotMatched |-> <<"list", <<>> >>]
     : w \in {<<"str", <<"DELETE">> >>,
              <<"str", <<"DELETE", ";", " ", "DROP", " ", "TABLE", " ", "users">> >>}}
MaterializedViewInputs ==
    {[name |-> <<"v">>, query |-> q, refreshInterval |-> <<"1", " ", "HOUR">>,
      partitionField |-> {<<"day">>}]
     : q \in {Sql, Sql \o <<" ", "/*", "x", "*/">>}}
PartitionedTableInputs ==
    {[name |-> <<"t">>, schema |-> << << <<"day">>, <<"DATE">> >> >>,
      partitionType |-> <<"DATE">>, partitionField |-> <<"day">>]}
RowInputs == {<<>>, <<Row1>>}

\* ---- the client's operations
Frame == UNCHANGED <<builderVars, pairVars, config, now, ret, hist, partVars>>
Logged(error) == logError(logEntries, config.enableLogging, error, now)
QueryOps == {"query", "merge", "createMaterializedView", "createPartitionedTable"}
Creates == {"createMaterializedView", "createPartitionedTable"}

\* what the operation makes of its query() resolving with v: query and merge
\* hand it on, the create operations report success
Returned(c, v) ==
    IF c.op \in Creates THEN Resolve(c, Value("true", 0, 0, 0, FALSE))
    ELSE Resolve(c, v)
\* and of the catch clause of query() receiving v: query() throws e, a
\* BigQueryError with v's message; query and merge reject with e, the create
\* operations catch e, log it and report failure
Thrown(c, v, e) ==
    IF c.op \in Creates
    THEN Resolve([c EXCEPT !.caught = e], Value("false", 0, 0, 0, FALSE))
    ELSE Reject([c EXCEPT !.caught = v], e)
LoggedBy(op, e) == IF op \in Creates THEN Logged(e) ELSE logEntries

\* query(sql, params) up to its first await; ps is {} when no params are
\* given, and max bounds the number of calls made
queryEntered(max, op, args, sql, ps) ==
    LET params == IF ps = {} THEN <<>> ELSE The(ps)
        v == IF validateQuery(sql) # NoErr THEN validateQuery(sql)
             ELSE IF ps # {} THEN validateParameters(ArrayOf(params))
             ELSE NoErr
        e == BigQueryError(v.message, "QUERY_ERROR")
        key == generateCacheKey(sql, ps)
        got == cacheGet(cache, config, key, now)
    IN  /\ Len(calls) < max
        /\ IF v # NoErr
           THEN /\ metrics' = recordError(metrics, v)
                /\ calls' = Append(calls, Thrown(NewCall(op, args), v, e))
                /\ logEntries' = LoggedBy(op, e)
                /\ UNCHANGED <<validated, cache>>
           ELSE /\ validated' = validated \cup {Request("query", <<Lit(sql)>>, params)}
                /\ cache' = got.cache
                /\ calls' = Append(calls,
                       [NewCall(op, args) EXCEPT !.pc = "cacheGet",
                                           !.query = <<Lit(sql)>>,
                                           !.params = params,
                                           !.key = key,
                                           !.cached = got.result])
                /\ UNCHANGED <<metrics, logEntries>>
        /\ UNCHANGED sent
QueryEnter(max, op, args, sql, ps) ==
    queryEntered(max, op, args, sql, ps) /\ Frame

StartQuery == \E q \in QueryInputs : QueryEnter(MaxOps, "query", q, q.sql, q.params)
StartMerge == \E o \in MergeInputs : QueryEnter(MaxOps, "merge", o, mergeQuery(o), {})
StartCreateMaterializedView ==
    \E cfg \in MaterializedViewInputs :
        QueryEnter(MaxOps, "createMaterializedView", cfg,
                   materializedViewQuery(cfg), {})
StartCreatePartitionedTable ==
    \E cfg \in PartitionedTableInputs :
        QueryEnter(MaxOps, "createPartitionedTable", cfg,
                   partitionedTableQuery(cfg), {})

\* query() after `await this.queryCache.get(cacheKey)`
QueryLookedUp ==
    \E i \in DOMAIN calls :
        LET c == calls[i]
        IN  /\ c.pc = "cacheGet"
            /\ IF c.cached # {}
               THEN /\ calls' = [calls EXCEPT ![i] =
                           Returned(c, [The(c.cached) EXCEPT !.cacheHit = TRUE])]
                    /\ UNCHANGED sent
               ELSE /\ calls' = [calls EXCEPT ![i] =
                           [c EXCEPT !.pc = "exec", !.startTime = now]]
                    /\ sent' = Append(sent,
                           SentBy(i, Request("query", c.query, c.params)))
            /\ UNCHANGED <<validated, logEntries, metrics, cache>>
            /\ Frame

\* query() after `await this.executeQuery(sql, params)`
QueryReplied ==
    \E i \in DOMAIN calls, r \in Replies :
        LET c == calls[i]
            queryResult == Value("n/a", r.rows, now - c.startTime, r.bytes, FALSE)
            e == BigQueryError(NetworkError.message, "QUERY_ERROR")
        IN  /\ c.pc = "exec" /\ c.op \in QueryOps
            /\ IF r.ok
               THEN /\ cache' = cacheSet(cache, config, c.key, queryResult, now)
                    /\ calls' = [calls EXCEPT ![i] =
                           [c EXCEPT !.pc = "cacheSet", !.value = queryResult]]
                    /\ UNCHANGED <<metrics, logEntries>>
               ELSE /\ metrics' = recordError(metrics, NetworkError)
                    /\ calls' = [calls EXCEPT ![i] = Thrown(c, NetworkError, e)]
                    /\ logEntries' = LoggedBy(c.op, e)
                    /\ UNCHANGED cache
            /\ UNCHANGED <<sent, validated>>
            /\ Frame

\* query() after `await this.queryCache.set(cacheKey, queryResult)`
QueryStored ==
    \E i \in DOMAIN calls :
        LET c == calls[i]
        IN  /\ c.pc = "cacheSet"
            /\ metrics' = recordQuery(metrics,
                   [executionTime |-> c.value.executionTime,
                    bytesProcessed |-> c.value.bytesProcessed,
                    rowsAffected |-> c.value.rows,
                    cacheHit |-> FALSE, timestamp |-> now])
            /\ calls' = [calls EXCEPT ![i] = Returned(c, c.value)]
            /\ UNCHANGED <<sent, validated, logEntries, cache>>
            /\ Frame

\* the operations that build their statement and hand it to bigQuery.query
\* themselves: the call as it stands at its first await, or settled when
\* the operation threw before it
Sending_sharedBuilder(c, built) ==
    [c EXCEPT !.pc = "exec", !.query = built.query,
              !.params = (IF calls = <<>> THEN <<>>
                          ELSE calls[Len(calls)].params) \o built.params]
Sending(c, built) ==
    [c EXCEPT !.pc = "exec", !.query = built.query, !.params = built.params]
\* the step of such an operation: c is the call after the step, e the error
\* caught on the way (NoErr when none), and max bounds the number of calls made
Begin(max, c, e) ==
    /\ Len(calls) < max
    /\ calls' = Append(calls, [c EXCEPT !.caught = e])
    /\ sent' = IF c.pc = "exec"
               THEN Append(sent, SentBy(Len(calls) + 1,
                       Request(IF c.op \in {"batchInsert", "streamInsert"}
                               THEN "insert" ELSE "query",
                               c.query, c.params)))
               ELSE sent
    /\ logEntries' = IF e = NoErr THEN logEntries ELSE Logged(e)
    /\ UNCHANGED <<validated, metrics, cache>>
    /\ Frame

Client_select(max, options) ==
    LET s == selectStatement(options)
        c == [NewCall("select", options) EXCEPT !.aliasMap = s.aliasMap]
    IN  IF s.err # NoError
        THEN Begin(max, Reject(c, ErrorOf(s.err)), ErrorOf(s.err))
        ELSE Begin(max, Sending(c, s), NoErr)
StartSelect == \E options \in SelectRequests : Client_select(MaxOps, options)

\* the builder calls of insert, update and delete, and build()
insertStatement(table, rows) ==
    LET r == QB_insert(NewQueryBuilder(formatTableName(table)), rows)
    IN  IF r.err # NoError THEN [err |-> r.err] ELSE build(r.b)
updateStatement(table, set, where) ==
    LET r1 == QB_update(NewQueryBuilder(formatTableName(table)), set)
        r2 == Then(r1, QB_where(r1.b, where))
    IN  IF Len(set) = 0
        THEN [err |-> "Update failed: No fields provided to update."]
        ELSE IF Len(where) = 0
        THEN [err |-> "Update failed: WHERE clause cannot be empty."]
        ELSE IF r2.err # NoError THEN [err |-> r2.err] ELSE build(r2.b)
deleteStatement(table, where) ==
    LET r1 == QB_delete(NewQueryBuilder(formatTableName(table)))
        r2 == Then(r1, QB_where(r1.b, where))
    IN  IF r2.err # NoError THEN [err |-> r2.err] ELSE build(r2.b)

Client_insert(max, rows) ==
    LET s == insertStatement(Table, rows)
        c == [NewCall("insert", [table |-> Table, rows |-> rows])
                EXCEPT !.affected = Len(rows)]
    IN  IF s.err # NoError
        THEN Begin(max, Resolve(c, Value("false", 0, 0, 0, FALSE)),
                   ErrorOf(s.err))
        ELSE Begin(max, Sending(c, s), NoErr)
StartInsert == \E rows \in InsertInputs : Client_insert(MaxOps, rows)

Client_update(max, o) ==
    LET s == updateStatement(Table, o.set, o.where)
        c == NewCall("update", [table |-> Table, set |-> o.set,
                                where |-> o.where])
    IN  IF s.err # NoError
        THEN Begin(max, Reject(c, ErrorOf(s.err)), ErrorOf(s.err))
        ELSE Begin(max, Sending(c, s), NoErr)
StartUpdate == \E o \in UpdateInputs : Client_update(MaxOps, o)

Client_delete(max, where) ==
    LET s == deleteStatement(Table, where)
        c == [NewCall("delete", [table |-> Table, where |-> where])
              EXCEPT !.userId =
                 IF Get(where, <<"user_id">>) = {} THEN Scalar("undefined")
                 ELSE Scalar(The(Get(where, <<"user_id">>)))]
    IN  IF s.err # NoError
        THEN Begin(max, Reject(c, ErrorOf(s.err)), ErrorOf(s.err))
        ELSE Begin(max, Sending(c, s), NoErr)
StartDelete == \E where \in DeleteInputs : Client_delete(MaxOps, where)

\* the rows handed to table.insert, as a request
InsertAll(c, rows) ==
    [c EXCEPT !.pc = "exec", !.query = <<Lit(Table)>>,
              !.params = Flatten([i \in DOMAIN rows |-> SeqMap(ScalarOf, rows[i])])]
StartBatchInsert ==
    \E rows \in RowInputs :
        IF Len(rows) = 0
        THEN Begin(MaxOps, Reject(NewCall("batchInsert", rows),
                                  Error("No rows to insert")),
                   Error("No rows to insert"))
        ELSE Begin(MaxOps, InsertAll(NewCall("batchInsert", rows), rows), NoErr)
StartStreamInsert ==
    \E rows \in RowInputs :
        Begin(MaxOps, InsertAll(NewCall("streamInsert", rows), rows), NoErr)

\* an operation after its await of the warehouse: c is the call after the
\* step, e the error caught (NoErr when none), more the requests it sends next
Resume(i, c, e, more) ==
    /\ calls' = [calls EXCEPT ![i] = [c EXCEPT !.caught = e]]
    /\ sent' = sent \o [k \in DOMAIN more |-> SentBy(i, more[k])]
    /\ logEntries' = IF e = NoErr THEN logEntries ELSE Logged(e)
    /\ UNCHANGED <<validated, metrics, cache>>
    /\ Frame
Awaiting(i, op, pc) == calls[i].op = op /\ calls[i].pc = pc

SelectReplied ==
    \E i \in DOMAIN calls, r \in Replies :
        /\ Awaiting(i, "select", "exec")
        /\ IF r.ok
           THEN Resume(i, Resolve(calls[i],
                           Value(IF r.rows > 0 THEN "true" ELSE "false",
                                 r.rows, 0, 0, FALSE)), NoErr, <<>>)
           ELSE Resume(i, Reject(calls[i], NetworkError), NetworkError, <<>>)

InsertReplied ==
    \E i \in DOMAIN calls, r \in Replies :
        /\ Awaiting(i, "insert", "exec")
        /\ IF r.ok
           THEN Resume(i, Resolve(calls[i],
                           Value("true", calls[i].affected, 0, 0, FALSE)),
                       NoErr, <<>>)
           ELSE Resume(i, Resolve(calls[i], Value("false", 0, 0, 0, FALSE)),
                       NetworkError, <<>>)

UpdateReplied ==
    \E i \in DOMAIN calls, r \in Replies :
        /\ Awaiting(i, "update", "exec")
        /\ IF r.ok
           THEN Resume(i, Resolve(calls[i], Value("true", 1, 0, 0, FALSE)),
                       NoErr, <<>>)
           ELSE Resume(i, Reject(calls[i], NetworkError), NetworkError, <<>>)

\* delete after its DELETE: it sends the check query
DeleteReplied ==
    \E i \in DOMAIN calls, r \in Replies :
        /\ Awaiting(i, "delete", "exec")
        /\ IF r.ok
           THEN Resume(i, [calls[i] EXCEPT !.pc = "check"], NoErr,
                       <<Request("query", <<Lit(checkQuery(Table))>>,
                                 <<calls[i].userId>>)>>)
           ELSE Resume(i, Reject(calls[i], NetworkError), NetworkError, <<>>)
\* delete after its check query: r.rows is the count the check reports
DeleteChecked ==
    \E i \in DOMAIN calls, r \in Replies :
        /\ Awaiting(i, "delete", "check")
        /\ IF r.ok
           THEN Resume(i, Resolve(calls[i],
                           IF r.rows = 0 THEN Value("true", 1, 0, 0, FALSE)
                           ELSE Value("false", 0, 0, 0, FALSE)), NoErr, <<>>)
           ELSE Resume(i, Reject(calls[i], NetworkError), NetworkError, <<>>)

BatchInsertReplied ==
    \E i \in DOMAIN calls, r \in Replies :
        /\ Awaiting(i, "batchInsert", "exec")
        /\ IF r.ok
           THEN Resume(i, Resolve(calls[i], Value("n/a", r.rows, 0, 0, FALSE)),
                       NoErr, <<>>)
           ELSE Resume(i, Reject(calls[i], NetworkError), NetworkError, <<>>)
StreamInsertReplied ==
    \E i \in DOMAIN calls, r \in Replies :
        /\ Awaiting(i, "streamInsert", "exec")
        /\ IF r.ok
           THEN Resume(i, Resolve(calls[i], Value("n/a", r.rows, 0, 0, FALSE)),
                       NoErr, <<>>)
           ELSE Resume(i, Reject(calls[i], NetworkError), NetworkError, <<>>)

\* the clock
Tick ==
    /\ now < MaxTime
    /\ now' = now + 1
    /\ UNCHANGED <<builderVars, pairVars, config, calls, sent, validated,
                   logEntries, metrics, cache, ret, hist, partVars>>

ClientNext ==
    \/ StartQuery
    \/ StartSelect
    \/ StartInsert
    \/ StartUpdate
    \/ StartDelete
    \/ StartMerge
    \/ StartBatchInsert
    \/ StartStreamInsert
    \/ StartCreateMaterializedView
    \/ StartCreatePartitionedTable
    \/ QueryLookedUp
    \/ QueryReplied
    \/ QueryStored
    \/ SelectReplied
    \/ InsertReplied
    \/ UpdateReplied
    \/ DeleteReplied
    \/ DeleteChecked
    \/ BatchInsertReplied
    \/ StreamInsertReplied
    \/ Tick

InitClient ==
    /\ NewBuilders
    /\ \E l, c \in BOOLEAN : Constructed(l, c)
    /\ pool = NewPool(DEFAULT_POOL_MAX)
SpecClient == InitClient /\ [][ClientNext]_vars

\* ---- query() called repeatedly
MaxQueries == 2
Sql2 == <<"SELECT", " ", "2">>
RepeatedQueryInputs ==
    {[sql |-> q, params |-> ps] :
        q \in {Sql, Sql2},
        ps \in {{}, {<<Scalar("X")>>}, {<<Scalar("NaN")>>},
                {<<Scalar("Infinity")>>}}}
QueryAgain ==
    \E q \in RepeatedQueryInputs :
        QueryEnter(MaxQueries, "query", q, q.sql, q.params)
QueryNext == QueryAgain \/ QueryLookedUp \/ QueryReplied \/ QueryStored \/ Tick
SpecQuery == InitClient /\ [][QueryNext]_vars

\* ---- select, insert, update and delete called while others are in flight
MaxConcurrent == 2
ConcurrentSelect ==
    \E options \in SelectRequests : Client_select(MaxConcurrent, options)
ConcurrentInsert == \E rows \in InsertInputs : Client_insert(MaxConcurrent, rows)
ConcurrentUpdate == \E o \in UpdateInputs : Client_update(MaxConcurrent, o)
ConcurrentDelete ==
    \E where \in DeleteInputs : Client_delete(MaxConcurrent, where)
ConcurrentNext ==
    \/ ConcurrentSelect
    \/ ConcurrentInsert
    \/ ConcurrentUpdate
    \/ ConcurrentDelete
    \/ SelectReplied
    \/ InsertReplied
    \/ UpdateReplied
    \/ DeleteReplied
    \/ DeleteChecked
SpecConcurrent == InitClient /\ [][ConcurrentNext]_vars

\* ---- Transaction
MaxTxQueries == 2
TxSql == <<"UPDATE", " ", "t", " ", "SET", " ", "x", " ", "=", " ", "1">>
TxInputs ==
    {[query |-> TxSql, params |-> <<>>],
     [query |-> TxSql, params |-> <<Scalar("X")>>],
     [query |-> <<>>, params |-> <<>>]}
ClientIdle == UNCHANGED <<calls, sent, validated, logEntries, metrics, cache>>
TxFrame ==
    UNCHANGED <<builderVars, pairVars, config, now, ret, hist, pool, logged,
                recorded, checked>>

\* addQuery(query, params = [])
TxAddQuery ==
    \E q \in TxInputs :
        /\ Len(tx.queries) < MaxTxQueries
        /\ tx' = [tx EXCEPT !.queries = Append(@, q)]
        /\ ClientIdle
        /\ TxFrame

\* `await this.client.query(query, params)` for the k-th query, up to the
\* first await of query()
TxQuery(k) ==
    /\ queryEntered(MaxTxQueries, "query",
                    [sql |-> tx.queries[k].query,
                     params |-> {tx.queries[k].params}],
                    tx.queries[k].query, {tx.queries[k].params})
    /\ tx' = [tx EXCEPT !.pc = "await", !.ran = Append(@, Len(calls) + 1)]

\* excute(), called once, up to its first await
TxExcute ==
    /\ tx.pc = "idle"
    /\ IF tx.queries = <<>>
       THEN /\ tx' = [tx EXCEPT !.pc = "done", !.settled = "resolved"]
            /\ ClientIdle
       ELSE TxQuery(1)
    /\ TxFrame

\* a bug: the loop going on after a failed query
TxResume_goesOn ==
    /\ tx.pc = "await"
    /\ calls[tx.ran[Len(tx.ran)]].pc = "done"
    /\ IF Len(tx.ran) < Len(tx.queries)
       THEN TxQuery(Len(tx.ran) + 1)
       ELSE IF calls[tx.ran[Len(tx.ran)]].settled = "rejected"
       THEN /\ tx' = [tx EXCEPT !.pc = "done", !.settled = "rejected",
                                !.error = {calls[tx.ran[Len(tx.ran)]].error}]
            /\ ClientIdle
       ELSE /\ tx' = [tx EXCEPT !.pc = "done", !.settled = "resolved"]
            /\ ClientIdle
    /\ TxFrame
\* excute() after an `await this.client.query(query, params)`: the catch
\* clause rethrows the error of a failed query, otherwise the loop goes on
TxResume ==
    /\ tx.pc = "await"
    /\ calls[tx.ran[Len(tx.ran)]].pc = "done"
    /\ IF calls[tx.ran[Len(tx.ran)]].settled = "rejected"
       THEN /\ tx' = [tx EXCEPT !.pc = "done", !.settled = "rejected",
                                !.error = {calls[tx.ran[Len(tx.ran)]].error}]
            /\ ClientIdle
       ELSE IF Len(tx.ran) < Len(tx.queries)
       THEN TxQuery(Len(tx.ran) + 1)
       ELSE /\ tx' = [tx EXCEPT !.pc = "done", !.settled = "resolved"]
            /\ ClientIdle
    /\ TxFrame

TxNext ==
    \/ TxAddQuery
    \/ TxExcute
    \/ TxResume
    \/ QueryLookedUp
    \/ QueryReplied
    \/ QueryStored
    \/ Tick
SpecTx == InitClient /\ [][TxNext]_vars

\* ---- Pool
MaxPoolCalls == 5
PoolMax == 2

InitPool ==
    /\ NewBuilders
    /\ Constructed(FALSE, FALSE)
    /\ \E max \in (0..PoolMax) \cup {DEFAULT_POOL_MAX} : pool = NewPool(max)

PoolCalled(p, op, threw) ==
    [op |-> op, threw |-> threw, before |-> p.metrics]
\* acquire()
Pool_acquire_whenOver(p) ==
    IF p.metrics.activeConnections > p.max
    THEN [p EXCEPT !.last = PoolCalled(p, "acquire",
                                {ConnectionError("Connection pool exhausted")})]
    ELSE [p EXCEPT !.metrics.activeConnections = @ + 1,
                   !.metrics.totalQueries = @ + 1,
                   !.held = @ + 1,
                   !.last = PoolCalled(p, "acquire", {})]
Pool_acquire(p) ==
    IF p.metrics.activeConnections >= p.max
    THEN [p EXCEPT !.last = PoolCalled(p, "acquire",
                                {ConnectionError("Connection pool exhausted")})]
    ELSE [p EXCEPT !.metrics.activeConnections = @ + 1,
                   !.metrics.totalQueries = @ + 1,
                   !.held = @ + 1,
                   !.last = PoolCalled(p, "acquire", {})]
\* release(connection)
Pool_release(p) ==
    [p EXCEPT !.metrics.activeConnections = @ - 1,
              !.held = IF @ > 0 THEN @ - 1 ELSE 0,
              !.foreign = @ \/ p.held = 0,
              !.last = PoolCalled(p, "release", {})]
\* reset()
Pool_reset(p) ==
    [p EXCEPT !.metrics = [activeConnections |-> 0, waitingRequests |-> 0,
                           totalQueries |-> 0],
              !.last = PoolCalled(p, "reset", {})]

PoolFrame ==
    UNCHANGED <<builderVars, pairVars, clientVars, tx, logged, recorded, checked>>
PoolStep(after) ==
    /\ pool.n < MaxPoolCalls
    /\ pool' = [after EXCEPT !.n = @ + 1]
    /\ PoolFrame
PoolAcquire == PoolStep(Pool_acquire(pool))
PoolRelease == PoolStep(Pool_release(pool))
PoolReset == PoolStep(Pool_reset(pool))
PoolNext == PoolAcquire \/ PoolRelease \/ PoolReset
SpecPool == InitPool /\ [][PoolNext]_vars

\* ---- the Logger called directly
MaxLogCalls == 1002
\* the calls that may be of any kind; the later ones are logQuery calls,
\* and clearLogs() once the buffer is full
MaxVaried == 2
LogEntryInputs ==
    {[timestamp |-> 0, level |-> "debug", query |-> Sql,
      params |-> <<Scalar("X")>>, executionTime |-> 1, error |-> NoErr]}
LoggerFrame ==
    UNCHANGED <<builderVars, pairVars, config, calls, sent, validated, metrics,
                cache, now, ret, hist, tx, pool, recorded, checked>>
LoggerCalled(entries, entry) ==
    /\ logEntries' = entries
    /\ logged' = [entries |-> Append(logged.entries, entry), n |-> logged.n + 1]
    /\ LoggerFrame

\* log(entry)
LoggerLog ==
    \E entry \in LogEntryInputs :
        /\ logged.n < MaxVaried
        /\ LoggerCalled(Logger_log(logEntries, config.enableLogging, entry), entry)
\* logQuery(query, params)
LoggerLogQuery ==
    \E ps \in IF logged.n < MaxVaried THEN {{}, {<<Scalar("X")>>}} ELSE {{}} :
        /\ logged.n < MaxLogCalls
        /\ LoggerCalled(logQuery(logEntries, config.enableLogging, Sql, ps, now),
                        queryEntry(Sql, ps, now))
\* logError(error)
LoggerLogError ==
    /\ logged.n < MaxVaried
    /\ LoggerCalled(logError(logEntries, config.enableLogging, NetworkError, now),
                    errorEntry(NetworkError, now))
\* clearLogs()
LoggerClearLogs ==
    /\ logged.n < MaxLogCalls
    /\ logged.n < MaxVaried \/ Len(logEntries) >= maxEntries
    /\ logEntries' = <<>>
    /\ logged' = [entries |-> <<>>, n |-> logged.n + 1]
    /\ LoggerFrame

LoggerNext == LoggerLog \/ LoggerLogQuery \/ LoggerLogError \/ LoggerClearLogs
SpecLogger == InitClient /\ [][LoggerNext]_vars

\* ---- the MetricsCollector called directly
MaxMetricCalls == 4
QueryMetricsInputs ==
    {[executionTime |-> e, bytesProcessed |-> b, rowsAffected |-> 1,
      cacheHit |-> FALSE, timestamp |-> 0] : e \in 0..2, b \in 0..1}
MetricsFrame ==
    UNCHANGED <<builderVars, pairVars, config, calls, sent, validated,
                logEntries, cache, now, ret, hist, tx, pool, logged, checked>>
\* reset()
MetricsCollector_reset(m) == NewMetrics

\* recordQuery(metrics)
MetricsRecordQuery ==
    \E q \in QueryMetricsInputs :
        /\ recorded.n < MaxMetricCalls
        /\ metrics' = recordQuery(metrics, q)
        /\ recorded' = [queries |-> Append(recorded.queries, q),
                        n |-> recorded.n + 1, last |-> "recordQuery"]
        /\ MetricsFrame
\* recordError(error)
MetricsRecordError ==
    /\ recorded.n < MaxMetricCalls
    /\ metrics' = recordError(metrics, NetworkError)
    /\ recorded' = [recorded EXCEPT !.n = @ + 1, !.last = "recordError"]
    /\ MetricsFrame
MetricsReset ==
    /\ recorded.n < MaxMetricCalls
    /\ metrics' = MetricsCollector_reset(metrics)
    /\ recorded' = [queries |-> <<>>, n |-> recorded.n + 1, last |-> "reset"]
    /\ MetricsFrame

MetricsNext == MetricsRecordQuery \/ MetricsRecordError \/ MetricsReset
SpecMetrics == InitClient /\ [][MetricsNext]_vars

\* ---- validateQuery on the texts query() is called with
MaxSqlLen == 4
SqlAtoms == {";", " ", "NL", "DROP", "drop", "x", "--", "'", "OR", "="}
RECURSIVE Texts(_)
Texts(n) ==
    IF n = 0 THEN {<<>>}
    ELSE Texts(n - 1)
         \cup {Append(t, a) : t \in {u \in Texts(n - 1) : Len(u) = n - 1},
                              a \in SqlAtoms}
ValidateText ==
    /\ calls = <<>>
    /\ \E sql \in Texts(MaxSqlLen) :
           QueryEnter(MaxOps, "query", [sql |-> sql, params |-> {}], sql, {})
SpecValidator == InitClient /\ [][ValidateText]_vars

\* ---- validateParameters, called directly and by query()
MaxParams == 2
ParamValues == {"X", "null", "undefined"}
RECURSIVE ParamLists(_)
ParamLists(n) ==
    IF n = 0 THEN {<<>>}
    ELSE ParamLists(n - 1)
         \cup {Append(l, Scalar(v)) :
                  l \in {m \in ParamLists(n - 1) : Len(m) = n - 1},
                  v \in ParamValues}
\* validateParameters(params)
ValidateParams ==
    \E arg \in {NotAnArray} \cup {ArrayOf(l) : l \in ParamLists(MaxParams)} :
        /\ checked' = [op |-> "validateParameters", arg |-> arg,
                       threw |-> validateParameters(arg)]
        /\ UNCHANGED <<builderVars, pairVars, clientVars, tx, pool, logged,
                       recorded>>
\* query(sql, params)
QueryWithParams ==
    \E l \in ParamLists(MaxParams) :
        QueryEnter(MaxOps, "query", [sql |-> Sql, params |-> {l}], Sql, {l})
ParamsNext ==
    \/ ValidateParams
    \/ QueryWithParams
    \/ QueryLookedUp
    \/ QueryReplied
    \/ QueryStored
SpecParams == InitClient /\ [][ParamsNext]_vars

\* ---- the QueryCache called directly
MaxCacheCalls == 4

\* new QueryCache({enabled, ttl, maxSize})
InitCache ==
    /\ NewBuilders
    /\ \E enabled \in BOOLEAN, maxSize \in 1..CacheMaxSize :
           config = [enableLogging |-> FALSE, enableCache |-> enabled,
                     cacheTtl |-> CacheTtl, cacheMaxSize |-> maxSize]
    /\ calls = <<>>
    /\ sent = <<>>
    /\ validated = {}
    /\ logEntries = <<>>
    /\ metrics = NewMetrics
    /\ cache = <<>>
    /\ now = 0
    /\ ret = NoRet
    /\ hist = NoHist
    /\ tx = NewTransaction
    /\ logged = NoLogged
    /\ recorded = NoRecorded
    /\ checked = NoChecked
    /\ pool = NewPool(DEFAULT_POOL_MAX)

\* a call on the cache: what it returned, the store before it, and the
\* entries evictOldest removed in it.  The n-th call is numbered n.
Ret(op, key, result, evicted) ==
    [op |-> op, key |-> key, result |-> result, at |-> now, before |-> cache,
     evicted |-> evicted, n |-> ret.n + 1]
Range(seq) == {seq[i] : i \in DOMAIN seq}
CacheFrame ==
    UNCHANGED <<builderVars, pairVars, config, calls, sent, validated,
                logEntries, metrics, now, partVars>>

\* set(key, value); the value stored by the n-th call is n
CacheSet ==
    \E key \in CacheKeys :
        /\ ret.n < MaxCacheCalls
        /\ cache' = cacheSet(cache, config, key, ret.n + 1, now)
        /\ ret' = Ret("set", key, {},
                      IF config.enableCache
                      THEN Range(cache) \ Range(madeRoom(cache, config)) ELSE {})
        /\ hist' = [hist EXCEPT
                       !.written[key] = {[value |-> ret.n + 1, at |-> now]},
                       !.lastUse[key] = ret.n + 1]
        /\ CacheFrame

\* get(key)
CacheGet ==
    \E key \in CacheKeys :
        LET got == cacheGet(cache, config, key, now)
        IN  /\ ret.n < MaxCacheCalls
            /\ cache' = got.cache
            /\ ret' = Ret("get", key, got.result, {})
            /\ hist' = IF got.result = {} THEN hist
                       ELSE [hist EXCEPT !.lastUse[key] = ret.n + 1,
                                         !.lastGet[key] = ret.n + 1]
            /\ CacheFrame

\* clear()
CacheClear ==
    /\ ret.n < MaxCacheCalls
    /\ cache' = <<>>
    /\ ret' = Ret("clear", <<>>, {}, {})
    /\ UNCHANGED hist
    /\ CacheFrame

CacheNext == CacheSet \/ CacheGet \/ CacheClear \/ Tick
SpecCache == InitCache /\ [][CacheNext]_vars

\* ------------------------------------------------------------- the claims
IsPh(tok) == tok.k = "ph"
ForOf(tok) == tok.for
Placeholders(toks) == SeqMap(ForOf, SelectSeq(toks, IsPh))
IsMark(tok) == tok = L("?")
Marks(text) == Len(SelectSeq(text, IsMark))
Built(o) == o.err = NoError
Min(x, y) == IF x < y THEN x ELSE y

\* C1: the text build() returns holds as many `?` placeholders as the params
\* list it returns has elements.
C1_PlaceholdersMatchParams ==
    Built(out) => Marks(out.query) = Len(out.params)

\* C2: the value written for the k-th `?` of the built text is params[k],
\* whatever the order of the calls that carried the values.
C2_ParamsInTextOrder ==
    Built(out) =>
        \A k \in 1..Min(Len(Placeholders(out.toks)), Len(out.params)) :
            Placeholders(out.toks)[k] = out.params[k]

\* C3: two call sequences that differ only in their values build the same
\* text (and build() raises for both or for neither).
C3_TextIndependentOfValues ==
    /\ out.err = out2.err
    /\ Built(out) => out.query = out2.query
C3_Witness ==
    /\ Built(out) /\ Built(out2)
    /\ Len(out2.params) >= 2
    /\ out.params # out2.params
    /\ Marks(out2.query) >= 2

\* C8: build() changes no field of the builder, and a build() right after a
\* build() returns the same text and params.
C8_BuildPure ==
    [][lastCall'.m = "build" =>
          /\ qb' = qb
          /\ (lastCall.m = "build" => out' = out)]_vars
C8_Witness ==
    /\ lastCall.m = "build" /\ lastCall.again
    /\ Built(out)
    /\ Len(out.params) >= 2
    /\ qb.queryType = "UPDATE"

\* C9: a call with a structurally invalid argument raises, and leaves every
\* field of the builder as it was.
C9_InvalidRaisesUnchanged ==
    [][(lastCall'.invalid /\ ncalls' = ncalls + 1) =>
          (raised' # NoError /\ qb' = qb)]_vars
C9_Witness ==
    /\ lastCall.invalid
    /\ raised # NoError
    /\ ncalls = MaxCalls
    /\ qb # NewQueryBuilder(Table)

\* the step is the call c of a builder method
Called(c) ==
    /\ ncalls' = ncalls + 1
    /\ lastCall'.m = c.m
    /\ qb' = Apply(qb, c).b
    /\ raised' = Apply(qb, c).err
\* n comma-joined groups of k placeholders
PlaceholderGroups(n, k) ==
    JoinSep([g \in 1..n |->
                <<L("(")>> \o JoinSep([j \in 1..k |-> <<L("?")>>], ",")
                \o <<L(")")>>], ",")
InsertText(table, rows) ==
    <<L("INSERT INTO"), Lit(table), L("(")>>
    \o JoinSep(SeqMap(ColFrag, Keys(rows[1])), ",")
    \o <<L(")"), L("VALUES")>>
    \o PlaceholderGroups(Len(rows), Len(rows[1]))
StartsWith(text, prefix) ==
    /\ Len(text) >= Len(prefix)
    /\ SubSeq(text, 1, Len(prefix)) = prefix

\* C23: insert(rows) with n >= 1 rows followed by build() yields an INSERT
\* whose column list is the keys of the first row, with n comma-joined groups
\* of k placeholders, and params equal to the row values in row-major order
C23_InsertBuildsRowGroups ==
    [][\A c \in Calls_insert :
          (Called(c) /\ Len(c.a) >= 1)
              => LET rows == RowsOf(c.a, c.vals)
                     o == build(qb')
                 IN  /\ Built(o)
                     /\ StartsWith(o.query, InsertText(qb'.table, rows))
                     /\ o.params =
                            Flatten([i \in DOMAIN rows |->
                                        SeqMap(ScalarOf, rows[i])])
                     /\ Len(o.params) = Len(rows) * Len(rows[1])]_vars

\* the places of a token in a text
PlacesOf(text, tok) == {i \in DOMAIN text : text[i] = tok}
\* the conditions `key = ?` of a having() call, as build() joins them
HavingText(conditions) == JoinSep(SeqMap(EqPhOf, conditions), "AND")

\* C31: having(conditions) adds a HAVING clause: after a having() that
\* returned, the text of build() has a HAVING clause holding its conditions,
\* placed after GROUP BY, and the WHERE clause is as it was before the call
C31_HavingAddsHavingClause ==
    [][\A c \in Calls_having :
          (Called(c) /\ raised' = NoError /\ Built(build(qb))
             /\ Built(build(qb')))
              => LET before == build(qb).query
                     text == build(qb').query
                 IN  /\ \E i \in PlacesOf(text, L("HAVING")) :
                            /\ \A j \in PlacesOf(text, L("GROUP BY")) : j < i
                            /\ StartsWith(SubSeq(text, i + 1, Len(text)),
                                          HavingText(Map(c.a, c.vals)))
                     /\ PlacesOf(text, L("WHERE")) = PlacesOf(before, L("WHERE"))]_vars

\* C32: build() itself never raises: a builder whose build() returns, and
\* whose last call returned, is left by every call that returns without
\* raising as a builder whose build() returns a {query, params} pair; the
\* new builder is one
C32_BuildNeverRaises ==
    [][(/\ ncalls' = ncalls + 1
        /\ raised = NoError
        /\ raised' = NoError
        /\ Built(build(qb)))
           => Built(build(qb'))]_vars

\* C38: the {query, params} pair build() returns is immutable with respect
\* to the builder: later calls on the same builder do not change the
\* contents of a params list an earlier build() returned
C38_ReturnedParamsImmutable == given.built => given.params = given.was

\* the place of a clause keyword in the fixed order, 0 for any other token
ClauseRank(tok) ==
    CASE tok = L("JOIN") -> 1
      [] tok = L("TABLESAMPLE SYSTEM") -> 2
      [] tok = L("WHERE") -> 3
      [] tok = L("GROUP BY") -> 4
      [] tok = L("ORDER BY") -> 5
      [] tok = L("LIMIT") -> 6
      [] tok = L("OFFSET") -> 7
      [] OTHER -> 0
\* the first place of a token in a text
First(text, tok) ==
    CHOOSE i \in DOMAIN text :
        text[i] = tok /\ \A j \in 1..(i - 1) : text[j] # tok
\* where the verb clause of a statement hands over to the target table and
\* the clauses: at the FROM of a SELECT, at the VALUES of an INSERT (its
\* table and column list come before), at the SET of an UPDATE, at the verb
\* of a DELETE
VerbEnd(text) ==
    CASE text[1] = L("SELECT") -> First(text, L("FROM"))
      [] text[1] = L("INSERT INTO") -> First(text, L("VALUES"))
      [] text[1] = L("UPDATE") -> First(text, L("SET"))
      [] OTHER -> 1
TableAt(text) == IF text[1] = L("SELECT") THEN VerbEnd(text) + 1 ELSE 2
\* the verb, then the target table, then the clauses in their order; only
\* JOIN may come more than once
InClauseOrder(text, table) ==
    /\ text[1] \in {L("SELECT"), L("INSERT INTO"), L("UPDATE"), L("DELETE FROM")}
    /\ text[TableAt(text)] = Lit(table)
    /\ \A i, j \in (VerbEnd(text) + 1)..Len(text) :
           (i < j /\ ClauseRank(text[i]) > 0 /\ ClauseRank(text[j]) > 0)
               => \/ ClauseRank(text[i]) < ClauseRank(text[j])
                  \/ ClauseRank(text[i]) = 1 /\ ClauseRank(text[j]) = 1

\* C27: whatever order the builder methods were called in, the clauses of
\* the text build() returns appear in the fixed order: verb clause, target
\* table, JOINs, TABLESAMPLE, WHERE, GROUP BY, ORDER BY, LIMIT, OFFSET
C27_ClausesInFixedOrder ==
    /\ Built(out) => InClauseOrder(out.query, qb.table)
    /\ Built(build(qb)) => InClauseOrder(build(qb).query, qb.table)
\* limit() was called, then where(): build() puts WHERE before LIMIT
C27_Witness ==
    /\ lastCall.m = "where"
    /\ ncalls = 2
    /\ qb.limitValue # {}
    /\ qb.conditions # <<>>
    /\ Built(build(qb))
    /\ \E i, j \in DOMAIN build(qb).query :
           /\ i < j
           /\ build(qb).query[i] = L("WHERE")
           /\ build(qb).query[j] = L("LIMIT")

\* ---- the client's claims
\* the requests call i has handed to the warehouse
SentOf(i) == {k \in DOMAIN sent : sent[k].by = i}
Rejected(c) == c.pc = "done" /\ c.settled = "rejected"

\* C4: update and delete each reject a request whose where map is empty, and
\* no statement is sent to the warehouse for such a request
C4_EmptyWhereRejected ==
    \A i \in DOMAIN calls :
        (calls[i].op \in {"update", "delete"} /\ calls[i].args.where = <<>>)
            => (Rejected(calls[i]) /\ SentOf(i) = {})

\* C5: a statement handed to bigQuery.query is one the QueryValidator has
\* accepted, with its parameters, before
C5_ValidatedBeforeSent ==
    \A k \in DOMAIN sent :
        sent[k].req.api = "query" => sent[k].req \in validated

\* C6: within one select call the base table and the joined tables have
\* pairwise distinct aliases
C6_AliasesInjective ==
    \A i \in DOMAIN calls :
        calls[i].op = "select" =>
            \A a, b \in DOMAIN calls[i].aliasMap :
                a # b => calls[i].aliasMap[a][2] # calls[i].aliasMap[b][2]

\* the tables of a select request, and the table prefixes its WHERE, GROUP BY
\* and ORDER BY entries carry
TablesOf(options) ==
    {options.table} \cup {options.joins[j].table : j \in DOMAIN options.joins}
PrefixesIn(cols) ==
    {split(cols[j])[1] : j \in {k \in DOMAIN cols : includesDot(cols[k])}}
PrefixesOf(options) ==
    (IF options.where = {} THEN {} ELSE PrefixesIn(Keys(The(options.where))))
    \cup (IF options.groupBy = {} THEN {} ELSE PrefixesIn(The(options.groupBy)))
    \cup (IF options.orderBy = {} THEN {}
          ELSE PrefixesIn([j \in DOMAIN The(options.orderBy) |->
                              The(options.orderBy)[j].column]))
UnknownPrefix(options) == PrefixesOf(options) \ TablesOf(options) # {}

\* C7: a select request with a table prefix that names neither the base table
\* nor a joined table is rejected and sends no statement
C7_UnknownPrefixRaises ==
    \A i \in DOMAIN calls :
        (calls[i].op = "select" /\ UnknownPrefix(calls[i].args))
            => (Rejected(calls[i]) /\ SentOf(i) = {})

\* C10: a call whose catch clause received an error ends with its promise
\* rejected
C10_FailuresReject ==
    \A i \in DOMAIN calls :
        (calls[i].caught # NoErr /\ calls[i].pc = "done")
            => calls[i].settled = "rejected"

\* C11: when the validator rejects inside query(), the caller receives that
\* ValidationError itself, same kind and message, and nothing is sent
C11_ValidationErrorUnchanged ==
    \A i \in DOMAIN calls :
        (calls[i].op = "query" /\ calls[i].caught.name = "ValidationError")
            => /\ Rejected(calls[i])
               /\ calls[i].error = calls[i].caught
               /\ SentOf(i) = {}

\* C12: with logging enabled, when the warehouse fails a statement and the
\* operation rejects, the error is in the metrics' errors and in the log
C12_NetworkFailureRecordedAndLogged ==
    \A i \in DOMAIN calls :
        (/\ config.enableLogging
         /\ calls[i].caught = NetworkError
         /\ Rejected(calls[i]))
            => /\ \E k \in DOMAIN metrics.errors :
                      metrics.errors[k].message = NetworkError.message
               /\ \E k \in DOMAIN logEntries :
                      logEntries[k].error.message = NetworkError.message
\* ---- the cache claims, under SpecCache

AtCapacity == Len(ret.before) >= config.cacheMaxSize
Written(key) == The(hist.written[key])
StoredBefore(key) == Entry(ret.before, key) # {}
Fresh(key) ==
    /\ StoredBefore(key)
    /\ hist.written[key] # {}
    /\ ret.at - Written(key).at <= config.cacheTtl

\* C13: on an enabled cache, get(key) returns the value of the most recent
\* set(key, v) exactly when the entry is still stored and at most ttl
\* milliseconds have passed since that set; otherwise it misses; and a get
\* that finds the entry older than ttl removes it
C13_GetReturnsFreshEntry ==
    (ret.op = "get" /\ config.enableCache)
        => /\ ret.result = IF Fresh(ret.key) THEN {Written(ret.key).value} ELSE {}
           /\ (StoredBefore(ret.key) /\ ~Fresh(ret.key))
                  => Entry(cache, ret.key) = {}
           /\ Fresh(ret.key) => cache = ret.before
\* a get exactly ttl milliseconds after the set hits
C13_Witness ==
    /\ ret.op = "get"
    /\ config.enableCache
    /\ ret.result # {}
    /\ ret.at - Written(ret.key).at = config.cacheTtl

\* C14: a set on an enabled cache at capacity removes exactly one entry
\* before the insertion, one with the smallest timestamp; below capacity it
\* removes none
C14_SetEvictsOneOldest ==
    (ret.op = "set" /\ config.enableCache)
        => IF AtCapacity
           THEN /\ Cardinality(ret.evicted) = 1
                /\ \A e \in ret.evicted : \A x \in Range(ret.before) :
                       e.timestamp <= x.timestamp
           ELSE /\ ret.evicted = {}
                /\ \A x \in Range(ret.before) :
                       x.key # ret.key => x \in Range(cache)

\* C37: set with a key that is already stored only replaces that key's value
\* and timestamp: every other stored key remains stored with its entry, also
\* when the cache is at capacity
C37_SetOfStoredKeyKeepsOthers ==
    (ret.op = "set" /\ config.enableCache /\ Entry(ret.before, ret.key) # {})
        => /\ \A x \in Range(ret.before) :
                  x.key # ret.key => x \in Range(cache)
           /\ Entry(cache, ret.key) =
                  {[key |-> ret.key, result |-> ret.n, timestamp |-> ret.at]}

\* C15: whatever the calls and the keys, the empty string included, the
\* cache never holds more than maxSize entries
C15_SizeBounded == Len(cache) <= config.cacheMaxSize

\* C16: eviction is least-recently-used: an entry returned by get() more
\* recently than another entry was last stored or read is not evicted while
\* that other entry remains
C16_EvictionIsLRU ==
    ret.op = "set"
        => \A e \in ret.evicted : \A y \in Range(ret.before) \cap Range(cache) :
               (e.key # ret.key /\ y.key # ret.key)
                   => ~(hist.lastGet[e.key] > hist.lastUse[y.key])

\* C17: on a disabled cache every get misses and every set leaves the store
\* as it was
C17_DisabledCacheInert ==
    ~config.enableCache
        => /\ ret.op = "get" => (ret.result = {} /\ cache = ret.before)
           /\ ret.op = "set" => cache = ret.before
\* a get of a key that was set before, on a disabled cache
C17_Witness ==
    /\ ~config.enableCache
    /\ ret.op = "get"
    /\ hist.written[ret.key] # {}
    /\ ret.result = {}

\* ---- the select statement, under SpecClient

\* the column specs of a request in the order select renders them, each with
\* the table it is asked of
ColumnSpecs(options) ==
    LET norm == normalizedColumns(options.table, options.columns)
    IN  Flatten([i \in DOMAIN norm |->
                    [j \in DOMAIN norm[i][2] |-> <<norm[i][1], norm[i][2][j]>>]])
\* FUNC(col), with or without an alias, FUNC in the aggregate set
IsAggregateSpec(col) ==
    /\ matchCall(col) # {}
    /\ toUpperCase(The(matchCall(col)).func)[1] \in AGGREGATE_FUNCTIONS
\* the j-th column of the select list of a built SELECT
SelectListItem(query, j) == query[2 * j]
\* the statement a select call has sent
SentSelect(i) == sent[The(SentOf(i))].req.query

\* C24: a column spec FUNC(col) of select with FUNC an aggregate renders as
\* FUNC(<table alias>.col) AS <alias>: the alias is the one given with AS,
\* or else <lowercase func>_<col without its non-word characters>; a `*`
\* argument gets no table prefix
C24_AggregateColumnRendered ==
    \A i \in DOMAIN calls :
        (calls[i].op = "select" /\ SentOf(i) # {})
            => \A j \in DOMAIN ColumnSpecs(calls[i].args) :
                   LET tableRef == ColumnSpecs(calls[i].args)[j][1]
                       col == ColumnSpecs(calls[i].args)[j][2]
                       m == The(matchCall(col))
                       func == toUpperCase(m.func)
                       argument == IF m.arg = <<"*">> THEN m.arg
                                   ELSE FirstChar(tableRef) \o <<".">> \o m.arg
                       alias == IF m.alias # <<>> THEN m.alias
                                ELSE toLowerCase(m.func) \o <<"_">>
                                     \o stripNonWord(m.arg)
                   IN  IsAggregateSpec(col)
                           => SelectListItem(SentSelect(i), j) =
                                  Lit(func \o <<"(">> \o argument \o <<")">>
                                      \o <<" AS ">> \o alias)
\* a select was sent with COUNT(*), an aggregate with an alias and one
\* without among its columns
C24_Witness ==
    \E i \in DOMAIN calls :
        /\ calls[i].op = "select"
        /\ SentOf(i) # {}
        /\ calls[i].args = AggregateRequest
        /\ SelectListItem(SentSelect(i), 1) =
               Lit(<<"COUNT", "(", "*", ")", " AS ", "count", "_">>)
        /\ SelectListItem(SentSelect(i), 2) =
               Lit(<<"SUM", "(", "u", ".", "price", ")", " AS ", "total">>)
        /\ SelectListItem(SentSelect(i), 3) =
               Lit(<<"SUM", "(", "u", ".", "unit", "-", "price", ")", " AS ",
                     "sum", "_", "unit", "price">>)

\* ---- the validator, under SpecValidator

\* a semicolon followed, after optional white space, by a dangerous keyword
SemicolonThenKeyword(str) ==
    \E i \in DOMAIN str :
        /\ str[i] = ";"
        /\ At(str, skipSpace(str, i + 1)) \in {"DROP", "ALTER", "TRUNCATE", "DELETE"}
\* no semicolon, no comment marker, none of the other patterns
Harmless(str) ==
    /\ \A i \in DOMAIN str : str[i] \notin {";", "--", "/*", "*/"}
    /\ ~unionSelect(str)
    /\ ~execCall(str)
    /\ ~waitforDelay(str)
    /\ ~quotedOr(str)

\* C25: validateQuery raises ValidationError for the empty text and for every
\* text in which a semicolon is followed, after optional white space, by
\* DROP, ALTER, TRUNCATE or DELETE in any letter case, and raises nothing for
\* a text with no semicolon, comment marker, UNION SELECT, EXEC(, WAITFOR
\* DELAY or quote-OR pattern
C25_ValidatorRejectsDangerous ==
    \A i \in DOMAIN calls :
        calls[i].op = "query"
            => /\ (calls[i].args.sql = <<>> \/ SemicolonThenKeyword(calls[i].args.sql))
                      => calls[i].caught.name = "ValidationError"
               /\ (calls[i].args.sql # <<>> /\ Harmless(calls[i].args.sql))
                      => calls[i].caught = NoErr

\* ---- validateParameters, under SpecParams

HasNullOrUndefined(items) ==
    \E k \in DOMAIN items : items[k] \in {Scalar("null"), Scalar("undefined")}

\* C26: validateParameters raises ValidationError exactly when its argument
\* is not an array or an element of it is null or undefined; and query()
\* called with a params list that has such an element rejects and sends
\* nothing to the warehouse
C26_ParametersValidated ==
    /\ checked.op = "validateParameters"
           => /\ (checked.threw # NoErr)
                     <=> (~checked.arg.array
                          \/ HasNullOrUndefined(checked.arg.items))
              /\ checked.threw # NoErr
                     => checked.threw.name = "ValidationError"
    /\ \A i \in DOMAIN calls :
           (/\ calls[i].op = "query"
            /\ calls[i].args.params # {}
            /\ HasNullOrUndefined(The(calls[i].args.params)))
               => /\ Rejected(calls[i])
                  /\ SentOf(i) = {}
\* validateParameters has refused a value that is no array, and query() has
\* rejected a list whose second element is undefined
C26_Witness ==
    /\ checked.op = "validateParameters"
    /\ ~checked.arg.array
    /\ checked.threw.name = "ValidationError"
    /\ \E i \in DOMAIN calls :
           /\ calls[i].op = "query"
           /\ calls[i].args.params = {<<Scalar("X"), Scalar("undefined")>>}
           /\ Rejected(calls[i])
           /\ SentOf(i) = {}

\* the select list of a sent SELECT: the items before FROM
SelectList(query) ==
    [j \in 1..(VerbEnd(query) \div 2) |-> SelectListItem(query, j).v]
\* the k-th column of the ORDER BY clause of a built statement
OrderByItem(query, k) ==
    LET p == CHOOSE i \in DOMAIN query : query[i] = L("ORDER BY")
    IN  query[p + 1 + 3 * (k - 1)].v
\* the table-prefix resolution of a WHERE key
Resolved(aliasMap, table, key) ==
    IF includesDot(key)
    THEN OrElse(Get(aliasMap, split(key)[1]), FirstChar(table))
         \o <<".">> \o split(key)[2]
    ELSE FirstChar(table) \o <<".">> \o key

\* C28: an ORDER BY column of select whose name is an alias of a selected
\* column is rendered as the bare alias; any other gets the table-prefix
\* resolution of a WHERE key: a dotted reference becomes
\* <alias of that table>.column, a bare column <base alias>.column
C28_OrderByResolvedAsWhere ==
    \A i \in DOMAIN calls :
        (calls[i].op = "select" /\ SentOf(i) # {} /\ calls[i].args.orderBy # {})
            => \A k \in DOMAIN The(calls[i].args.orderBy) :
                   LET col == The(calls[i].args.orderBy)[k].column
                       name == pop(split(col))
                   IN  OrderByItem(SentSelect(i), k) =
                           IF name \in columnAliases(SelectList(SentSelect(i)))
                           THEN name
                           ELSE Resolved(calls[i].aliasMap,
                                         calls[i].args.table, col)

\* text holds the clause `kw n`
HasClause(text, kw, n) ==
    \E i \in 1..(Len(text) - 1) : text[i] = L(kw) /\ text[i + 1] = Num(n)

\* C35: a limit or offset given in a select request is never silently
\* dropped: the statement a select with limit n (offset n), n >= 0, sends
\* holds LIMIT n (OFFSET n)
C35_LimitOffsetNeverDropped ==
    \A i \in DOMAIN calls :
        (calls[i].op = "select" /\ SentOf(i) # {})
            => /\ \A n \in calls[i].args.limit :
                      n >= 0 => HasClause(SentSelect(i), "LIMIT", n)
               /\ \A n \in calls[i].args.offset :
                      n >= 0 => HasClause(SentSelect(i), "OFFSET", n)

\* ---- the cached query, under SpecQuery

\* a query() call that went to the warehouse and resolved, and the time its
\* result was stored
Fetched(c) ==
    /\ c.op = "query"
    /\ c.pc = "done"
    /\ c.settled = "resolved"
    /\ ~c.value.cacheHit
StoredAt(c) == c.startTime + c.value.executionTime
SameQuery(c, d) == c.args.sql = d.args.sql /\ c.params = d.params
\* the call made in this step, a query() past validation
Issued ==
    /\ Len(calls') = Len(calls) + 1
    /\ calls'[Len(calls')].op = "query"
    /\ calls'[Len(calls')].pc = "cacheGet"
\* a query() issued after an earlier one with the same SQL and parameters
\* resolved, within ttl, finds that call's result in the cache
HitAfterSame ==
    \A j \in DOMAIN calls :
        (/\ Issued
         /\ config.enableCache
         /\ Fetched(calls[j])
         /\ SameQuery(calls[j], calls'[Len(calls')])
         /\ now - StoredAt(calls[j]) <= config.cacheTtl)
            => calls'[Len(calls')].cached = {calls[j].value}
\* a call that found a result returns it with cacheHit set, sends nothing to
\* the warehouse, and the result is that of a call with the same SQL and
\* parameters
HitIsSameQuery ==
    \A i \in DOMAIN calls :
        calls[i].cached # {}
            => /\ calls[i].pc = "done"
                  => /\ calls[i].settled = "resolved"
                     /\ calls[i].value =
                            [The(calls[i].cached) EXCEPT !.cacheHit = TRUE]
               /\ SentOf(i) = {}
               /\ \E j \in DOMAIN calls :
                      /\ j # i
                      /\ SameQuery(calls[j], calls[i])
                      /\ calls[j].value = The(calls[i].cached)

\* C18: with caching enabled, a query() issued after an earlier successful
\* query() with the same SQL and parameters completed, within ttl, returns
\* the same data without a request to the warehouse and with cacheHit true;
\* a call with different SQL or parameters never receives that result
C18_CacheHitOnlyForSameQuery == [][HitAfterSame]_vars /\ []HitIsSameQuery

\* a query() call whose lookup found nothing
Missed(c) ==
    /\ c.op = "query"
    /\ c.cached = {}
    /\ c.pc \in {"exec", "cacheSet", "done"}
    /\ c.caught.name # "ValidationError"
\* the entries of the cache under a key
EntriesUnder(key) == {k \in DOMAIN cache : cache[k].key = key}

\* C29: there is no stampede protection: two query() calls with the same SQL
\* and params that both looked the cache up before either stored a result
\* each send their own request to the warehouse, and once both have stored
\* theirs the cache holds exactly one entry for the key
C29_NoStampedeProtection ==
    \A i, j \in DOMAIN calls :
        (/\ i # j
         /\ config.enableCache
         /\ SameQuery(calls[i], calls[j])
         /\ Missed(calls[i])
         /\ Missed(calls[j]))
            => /\ Cardinality(SentOf(i)) = 1
               /\ Cardinality(SentOf(j)) = 1
               /\ SentOf(i) # SentOf(j)
               /\ (Fetched(calls[i]) /\ Fetched(calls[j]))
                      => Cardinality(EntriesUnder(calls[i].key)) = 1
\* two identical calls were in flight together (neither can have found the
\* other's result expired), both went to the warehouse and both have stored
C29_Witness ==
    \E i, j \in DOMAIN calls :
        /\ i < j
        /\ config.enableCache
        /\ SameQuery(calls[i], calls[j])
        /\ Fetched(calls[i])
        /\ Fetched(calls[j])
        /\ calls[i].startTime = calls[j].startTime
        /\ SentOf(i) # {}
        /\ SentOf(j) # {}
        /\ Cardinality(EntriesUnder(calls[i].key)) = 1

\* ---- the concurrent calls, under SpecConcurrent

\* the requests call i has sent, in order
RequestsOf(i) ==
    LET By(e) == e.by = i
        mine == SelectSeq(sent, By)
    IN  [k \in DOMAIN mine |-> mine[k].req]
\* the requests a call with c's arguments sends when no other call is made
\* and the warehouse answers each of them
Alone(c) ==
    LET s == CASE c.op = "select" -> selectStatement(c.args)
               [] c.op = "insert" -> insertStatement(c.args.table, c.args.rows)
               [] c.op = "update" ->
                      updateStatement(c.args.table, c.args.set, c.args.where)
               [] c.op = "delete" -> deleteStatement(c.args.table, c.args.where)
        user_id == Get(c.args.where, <<"user_id">>)
    IN  IF s.err # NoError THEN <<>>
        ELSE <<Request("query", s.query, s.params)>> \o
             (IF c.op = "delete"
              THEN <<Request("query", <<Lit(checkQuery(c.args.table))>>,
                             <<IF user_id = {} THEN Scalar("undefined")
                               ELSE Scalar(The(user_id))>>)>>
              ELSE <<>>)
IsPrefix(s, t) == Len(s) <= Len(t) /\ s = SubSeq(t, 1, Len(s))

\* C30: concurrent select, insert, update and delete calls share no builder
\* or alias state: under every interleaving, the statements and params a
\* call has sent to the warehouse are those it sends when it runs alone
C30_ConcurrentCallsIndependent ==
    \A i \in DOMAIN calls :
        /\ IsPrefix(RequestsOf(i), Alone(calls[i]))
        /\ calls[i].pc = "exec" => Len(RequestsOf(i)) = 1
        /\ calls[i].pc = "check" => Len(RequestsOf(i)) = 2
\* two different operations await the warehouse at once, each with its own
\* statement sent
C30_Witness ==
    \E i, j \in DOMAIN calls :
        /\ i < j
        /\ calls[i].op # calls[j].op
        /\ calls[i].pc \in {"exec", "check"}
        /\ calls[j].pc = "exec"
        /\ calls[i].params # <<>>
        /\ RequestsOf(i) # <<>>
        /\ RequestsOf(j) # <<>>
        /\ RequestsOf(i)[1] # RequestsOf(j)[1]

\* the query() calls that have returned successfully, and those of them that
\* were answered from the cache
Returns == {i \in DOMAIN calls : /\ calls[i].op = "query"
                                 /\ calls[i].pc = "done"
                                 /\ calls[i].settled = "resolved"}
CacheReturns == {i \in Returns : calls[i].value.cacheHit}

\* C36: every query() call that returns successfully, answered by the
\* warehouse or from the cache, appends exactly one record to the metrics
\* log, with cacheHit true exactly for the calls answered from the cache
C36_EveryReturnRecorded ==
    /\ Len(metrics.queries) = Cardinality(Returns)
    /\ Cardinality({k \in DOMAIN metrics.queries : metrics.queries[k].cacheHit})
           = Cardinality(CacheReturns)

\* ---- the transaction, under SpecTx

\* the statement of call k reached the warehouse and was carried out
Applied(k) ==
    /\ \E m \in DOMAIN sent : sent[m].by = k
    /\ calls[k].pc \in {"cacheSet", "done"}
    /\ calls[k].settled # "rejected"

\* C19: a transaction is atomic: when one of its queries fails and excute()
\* rejects, none of the transaction's queries remains applied
C19_TransactionAtomic ==
    tx.settled = "rejected" => \A k \in Range(tx.ran) : ~Applied(k)

\* C34: excute() runs the added queries one at a time in the order they were
\* added: the k-th query() call it makes is for the k-th added query, and is
\* made only after every earlier one has completed; when a query fails it is
\* the last one started, and excute() rejects with its error
C34_TransactionRunsInOrder ==
    /\ Len(tx.ran) <= Len(tx.queries)
    /\ \A k \in DOMAIN tx.ran :
           /\ calls[tx.ran[k]].op = "query"
           /\ calls[tx.ran[k]].args.sql = tx.queries[k].query
           /\ calls[tx.ran[k]].args.params = {tx.queries[k].params}
           /\ k < Len(tx.ran)
                  => /\ calls[tx.ran[k]].pc = "done"
                     /\ calls[tx.ran[k]].settled = "resolved"
    /\ tx.settled = "rejected"
           => /\ tx.ran # <<>>
              /\ calls[tx.ran[Len(tx.ran)]].settled = "rejected"
              /\ tx.error = {calls[tx.ran[Len(tx.ran)]].error}
    /\ tx.settled = "resolved"
           => \A k \in DOMAIN tx.ran : calls[tx.ran[k]].settled = "resolved"
    /\ tx.pc = "done" => \A k \in DOMAIN tx.ran : calls[tx.ran[k]].pc = "done"
\* the first of two queries failed in the warehouse: excute() has rejected
\* and the second was never started
C34_Witness ==
    /\ tx.settled = "rejected"
    /\ Len(tx.queries) = 2
    /\ Len(tx.ran) = 1
    /\ SentOf(tx.ran[1]) # {}
    /\ calls[tx.ran[1]].settled = "rejected"

\* ---- the pool, under SpecPool

\* C20: acquire() raises 'Connection pool exhausted' exactly when
\* activeConnections >= max at the time of the call, and a rejected acquire
\* leaves activeConnections and totalQueries as they were
C20_AcquireExhausted ==
    pool.last.op = "acquire"
        => /\ (pool.last.threw # {})
                  <=> (pool.last.before.activeConnections >= pool.max)
           /\ pool.last.threw # {}
                  => /\ pool.last.threw =
                            {ConnectionError("Connection pool exhausted")}
                     /\ pool.metrics = pool.last.before
           /\ pool.last.threw = {}
                  => /\ pool.metrics.activeConnections =
                            pool.last.before.activeConnections + 1
                     /\ pool.metrics.totalQueries =
                            pool.last.before.totalQueries + 1
\* an acquire on a pool with exactly max connections out, after earlier
\* acquires succeeded
C20_Witness ==
    /\ pool.last.op = "acquire"
    /\ pool.last.threw # {}
    /\ pool.max > 0
    /\ pool.last.before.activeConnections = pool.max

\* C33: for every sequence of acquire, release and reset calls in which
\* release gives back connections that acquire handed out, activeConnections
\* stays within 0..max and equals the number of connections handed out and
\* not yet released
C33_ActiveConnectionsCountHeld ==
    ~pool.foreign
        => /\ pool.metrics.activeConnections \in 0..pool.max
           /\ pool.metrics.activeConnections = pool.held

\* ---- the Logger, under SpecLogger

\* the last k elements of a sequence
LastOf(seq, k) == SubSeq(seq, Len(seq) - k + 1, Len(seq))

\* C21: on an enabled Logger, after any sequence of log, logQuery, logError
\* and clearLogs calls the stored entries are the most recent
\* min(n, maxEntries) of the n entries logged since the last clear, in the
\* order they were logged, and never more than maxEntries
C21_LoggerKeepsMostRecent ==
    config.enableLogging
        => /\ Len(logEntries) <= maxEntries
           /\ logEntries =
                  LastOf(logged.entries, Min(Len(logged.entries), maxEntries))
\* more than maxEntries entries were logged since the last clear, and the
\* oldest is gone
C21_Witness ==
    /\ config.enableLogging
    /\ Len(logged.entries) > maxEntries
    /\ Len(logEntries) = maxEntries
    /\ logEntries[1] = logged.entries[Len(logged.entries) - maxEntries + 1]
    /\ logEntries[1] # logged.entries[1]

\* ---- the MetricsCollector, under SpecMetrics

\* C22: after every recordQuery the average execution time is the mean of
\* executionTime and totalBytesProcessed the sum of bytesProcessed over the
\* queries recorded since construction or the last reset; both are 0 right
\* after a reset; recordError changes neither value nor the query log
C22_MetricsAreMeanAndSum ==
    LET times == [i \in DOMAIN recorded.queries |->
                     recorded.queries[i].executionTime]
        bytes == [i \in DOMAIN recorded.queries |->
                     recorded.queries[i].bytesProcessed]
        avg == metrics.performance.averageExecutionTime
    IN  /\ metrics.queries = recorded.queries
        /\ IF recorded.queries = <<>>
           THEN avg[1] = 0 /\ metrics.performance.totalBytesProcessed = 0
           ELSE /\ avg[1] * Len(times) = Sum(times) * avg[2]
                /\ metrics.performance.totalBytesProcessed = Sum(bytes)
\* two queries of different execution times recorded, then an error
C22_Witness ==
    /\ recorded.last = "recordError"
    /\ Len(recorded.queries) >= 2
    /\ recorded.queries[1].executionTime # recorded.queries[2].executionTime
    /\ metrics.errors # <<>>

====
